---- MODULE Spec2Model ----
(***************************************************************************)
(* A model of filelock-task: the registry of FileLockSingleton objects     *)
(* (FileLock), the reference counted file lock (FileLockAccess), and the   *)
(* stateful task lock layered on top of it (AIStatefulTaskLockSingleton,   *)
(* AIStatefulTaskNamedMutex).                                              *)
(*                                                                         *)
(* Every critical section of the code (the scope of one aithreadsafe       *)
(* write/read access object) is one step; a function that has several      *)
(* critical sections, or that makes system calls another process can       *)
(* interleave with, is several steps. ASSERT is modelled as enabled: a     *)
(* failing ASSERT aborts the process (fatal).                              *)
(***************************************************************************)
EXTENDS Integers, Sequences, FiniteSets, TLC

\* ---------------------------------------------------------------- bounds
NProcs     == 2     \* processes that use the same lock file
MaxRecords == 2     \* FileLockSingleton objects alive at the same time
MaxTokens  == 2     \* FileLockAccess objects alive at the same time
MaxMutexes == 2     \* AIStatefulTaskNamedMutex objects alive at the same time
NOwners    == 2     \* AIStatefulTask objects that ask for the task lock
MaxHandles == 2     \* FileLock objects of one process

Procs   == 1..NProcs          \* a process is named by its pid; 0 is 'unknown'
Records == 1..MaxRecords
Tokens  == 1..MaxTokens
Mutexes == 1..MaxMutexes
Owners  == 1..NOwners         \* an AIStatefulTask const*; 0 is nullptr
Handles == 1..MaxHandles      \* a FileLock object

\* ------------------------------------------------------------ file system
\* A path is a sequence of components. The file system holds three names
\* for two files: /l is a symbolic link to /a.
Cwd == <<"/">>
PathA == <<"/", "a">>
PathL == <<"/", "l">>
PathB == <<"/", "b">>
Inodes == {1, 2}

Inode(path) ==
  IF path = PathB THEN 2 ELSE 1

VARIABLES
  os_lock,    \* inode -> pid of the process holding the file lock, 0 when free
  file_pid,   \* inode -> the pid stored at the start of the lock file, 0 when none
  rec,        \* record id -> the FileLockSingleton
  token,      \* token id -> the FileLockAccess
  task_lock,  \* record id -> AIStatefulTaskLockSingleton::Data of the record
  mutex,      \* mutex id -> the AIStatefulTaskNamedMutex
  handle,     \* handle id -> the FileLock object
  map,        \* s_file_lock_map: the ids of the records in it
  fatal,      \* pid -> "none", or the ASSERT that aborted the process
  hist        \* history: system calls made, the outcome of the last operation

vars == <<os_lock, file_pid, rec, token, task_lock, mutex, handle, map, fatal, hist>>

NoRecord ==
  [alive |-> FALSE, proc |-> 0, path |-> <<>>,
   count |-> 0, lock_file |-> "null",
   pc |-> "idle", obtained_lock |-> FALSE, lastpid |-> 0]

\* FileLockSingleton(canonical_path): the constructor sets the path and the
\* count; m_lock_file has no initializer ("uninit"), reading it before the
\* first assignment yields null or any other value.
FileLockSingleton(p, canonical_path) ==
  [alive |-> TRUE, proc |-> p, path |-> canonical_path,
   count |-> 0, lock_file |-> "uninit",
   pc |-> "idle", obtained_lock |-> FALSE, lastpid |-> 0]

Uninitialized == {"null", "garbage"}

NoToken == [rec |-> 0, live |-> FALSE]

\* AIStatefulTaskLockSingleton::Data() : m_ref_count(0), m_owner(nullptr)
Data == [ref_count |-> 0, owner |-> 0]

\* An AIStatefulTaskNamedMutex: its FileLockAccess (tok), whether
\* m_stateful_task_lock_ref points to the task lock (ref), and the call that
\* runs on it: where it is (pc), its argument (owner), what try_lock of the
\* singleton returned (res). by is history: the owner whose try_lock through
\* this object succeeded last. When the named mutex is the member
\* m_stateful_task_lock_access of an AIStatefulTaskLockTask, lt is where that
\* task is: "trylock" (AIStatefulTaskLockTask_trylock, its only state),
\* "finished" (finish() was called) or "aborted"; "none" otherwise. A
\* task::TaskLock has the FileLockAccess only (ref stays FALSE); its lt is
\* "TaskLock_lock", "TaskLock_wait" (state TaskLock_locked, waiting for
\* condition 1), "TaskLock_locked" (state TaskLock_locked, to be run) or
\* "finished".
NoMutex ==
  [live |-> FALSE, tok |-> 0, ref |-> FALSE, by |-> 0,
   pc |-> "idle", owner |-> 0, res |-> FALSE, lt |-> "none"]

\* A FileLockAccess that is the member of a named mutex.
Embedded(t) == \E m \in Mutexes : mutex[m].live /\ mutex[m].tok = t

\* History of the task lock: the last call that returned, and the owner that
\* the caller's view holds the lock (its try_lock returned true and it has not
\* called unlock since).
NoTL == [op |-> "none", owner |-> 0, outcome |-> "none", holder |-> 0]

NoLast == [op |-> "none", rec |-> 0, outcome |-> "none", pid |-> 0]

\* History: the record as it was when the running or the last failed attempt
\* to obtain the file lock began.
NoBefore == [rec |-> NoRecord, open |-> 0]

\* FileLock::m_file_lock_instance: null ("unbound"), or a shared_ptr to a
\* record ("bound", and "dying" between the body of the destructor and the
\* destruction of the member; "passed" while the FileLock is the argument of
\* a running FileLockAccess(FileLock&&)).
Unbound == [state |-> "unbound", rec |-> 0]
Bound(r) == [state |-> "bound", rec |-> r]

Alive(p) == fatal[p] = "none"

\* The data mutex of record r is free and its process runs.
Idle(r) ==
  /\ rec[r].alive
  /\ rec[r].pc = "idle"
  /\ Alive(rec[r].proc)

\* ------------------------------------------------- the operating system
\* boost::interprocess::file_lock::try_lock: never blocks; the lock is owned
\* by a process, a process that holds it is granted it again.
OsTryLock(holder, p) == holder \in {0, p}

\* ------------------------------- intrusive_ptr_add_ref(FileLockSingleton*)
\* if (!obtained_lock || !lock_file_stream) m_number_of_FileLockAccess_objects = 0;
RollbackCount_Keep(obtained_lock, stream, count) == count

RollbackCount(obtained_lock, stream, count) ==
  IF ~obtained_lock \/ ~stream THEN 0 ELSE count

\* if (lock_file_stream && fread(&lastpid, sizeof(lastpid), 1, stream) != 1) lastpid = 0;
ReadLastPid_Own(stream, fread_ok, stored) ==
  IF stream /\ fread_ok THEN 1 ELSE 0

ReadLastPid(stream, fread_ok, stored) ==
  IF stream /\ fread_ok /\ stored # 0 THEN stored ELSE 0

\* History: the call of the file lock made by the step, if any.
NoCall == [op |-> "none", rec |-> 0]

Call(op, r) == [op |-> op, rec |-> r]

\* data_w->m_number_of_FileLockAccess_objects++
Incremented_Keep(count) == count

Incremented(count) == count + 1

\* The count was not 0: only the counter changes.
intrusive_ptr_add_ref_increment(t, r) ==
  /\ Idle(r)
  /\ token[t] = NoToken
  /\ rec[r].count > 0
  /\ rec' = [rec EXCEPT ![r].count = Incremented(@)]
  /\ token' = [token EXCEPT ![t] = [rec |-> r, live |-> TRUE]]
  /\ hist' = [hist EXCEPT
                !.call = NoCall,
                !.last = [op |-> "add_ref", rec |-> r, outcome |-> "ok", pid |-> 0]]
  /\ UNCHANGED <<map, os_lock, file_pid, fatal, task_lock, mutex>>

\* Called by FileLockAccess(FileLock&) and by the copy constructor.
add_ref_increment(t, r) ==
  intrusive_ptr_add_ref_increment(t, r) /\ UNCHANGED handle

\* The count was 0: the counter becomes 1 and the file lock is tried. The data
\* mutex stays locked until the function returns or throws.
intrusive_ptr_add_ref_try_lock(t, r) ==
  /\ Idle(r)
  /\ token[t] = NoToken
  /\ rec[r].count = 0
  /\ LET p == rec[r].proc
         i == Inode(rec[r].path)
         obtained_lock == OsTryLock(os_lock[i], p)
     IN /\ rec' = [rec EXCEPT ![r].count = 1,
                              ![r].pc = "fopen",
                              ![r].obtained_lock = obtained_lock]
        /\ os_lock' = IF obtained_lock THEN [os_lock EXCEPT ![i] = p] ELSE os_lock
  /\ token' = [token EXCEPT ![t] = [rec |-> r, live |-> FALSE]]
  /\ hist' = [hist EXCEPT
                !.call = Call("try_lock", r),
                !.before[r] = [rec |-> rec[r], open |-> hist.open[r]]]
  /\ UNCHANGED <<map, file_pid, fatal, task_lock, mutex>>

\* Called by FileLockAccess(FileLock&) and by the copy constructor.
add_ref_try_lock(t, r) ==
  intrusive_ptr_add_ref_try_lock(t, r) /\ UNCHANGED handle

\* Which way the function leaves after fopen:
\*   if (obtained_lock && !lock_file_stream) THROW_ALERTE(...);
\*   if (!obtained_lock) { ...; THROW_MALERT(...); }
AddRefOutcome_StreamFirst(obtained_lock, stream) ==
  IF ~stream THEN "IOError"
  ELSE IF ~obtained_lock THEN "LockUnavailable"
  ELSE "ok"

AddRefOutcome(obtained_lock, stream) ==
  IF obtained_lock /\ ~stream THEN "IOError"
  ELSE IF ~obtained_lock THEN "LockUnavailable"
  ELSE "ok"

\* The streams the record has open after a refused attempt:
\*   if (lock_file_stream) std::fclose(lock_file_stream);
OpenAfterRefusal_Leak(stream, open) == IF stream THEN open + 1 ELSE open

OpenAfterRefusal(stream, open) == open

\* The pid that the exception 'Failed to obtain file lock' carries:
\*   if (lastpid) THROW_MALERT("... locked by process [PID].", ...("[PID]", lastpid));
\*   else THROW_MALERT("... is it already locked by some other process?", ...);
ReportedPid_None(lastpid) == 0

ReportedPid(lastpid) == lastpid

\* THROW_ALERTE / THROW_MALERT inside the scope of data_w: the exception
\* leaves the function and the destructor of data_w unlocks the data mutex.
Thrown_StillLocked(pc) == pc

Thrown(pc) == "idle"

\* fopen, the reset of the count, the read of the stored pid, and the two
\* throws.
add_ref_fopen(t, r, stream, fread_ok) ==
  /\ rec[r].alive /\ rec[r].pc = "fopen"
  /\ token[t] = [rec |-> r, live |-> FALSE]
  /\ LET i == Inode(rec[r].path)
         obtained_lock == rec[r].obtained_lock
         count == RollbackCount(obtained_lock, stream, rec[r].count)
         lastpid == ReadLastPid(stream, fread_ok, file_pid[i])
         outcome == AddRefOutcome(obtained_lock, stream)
     IN IF outcome = "IOError"
        THEN \* THROW_ALERTE("Failed to open lock file [FILENAME] after locking it?!")
             /\ rec' = [rec EXCEPT ![r].count = count, ![r].pc = Thrown(@),
                                   ![r].obtained_lock = FALSE]
             /\ token' = [token EXCEPT ![t] = NoToken]
             /\ hist' = [hist EXCEPT
                  !.call = NoCall,
                  !.last = [op |-> "add_ref", rec |-> r, outcome |-> outcome,
                            pid |-> 0]]
        ELSE IF outcome = "LockUnavailable"
        THEN \* THROW_MALERT("Failed to obtain file lock [FILENAME]: ...")
             /\ rec' = [rec EXCEPT ![r].count = count, ![r].pc = Thrown(@),
                                   ![r].obtained_lock = FALSE]
             /\ token' = [token EXCEPT ![t] = NoToken]
             /\ hist' = [hist EXCEPT
                  !.call = NoCall,
                  !.last = [op |-> "add_ref", rec |-> r, outcome |-> outcome,
                            pid |-> ReportedPid(lastpid)],
                  !.open[r] = OpenAfterRefusal(stream, @)]
        ELSE /\ rec' = [rec EXCEPT ![r].count = count, ![r].pc = "write",
                                   ![r].lastpid = lastpid]
             /\ hist' = [hist EXCEPT !.call = NoCall, !.open[r] = @ + 1,
                                     !.before[r] = NoBefore]
             /\ UNCHANGED token
  /\ UNCHANGED <<handle, map, os_lock, file_pid, fatal, task_lock, mutex>>

\* if (lastpid != pid) { rewind; fwrite(&pid); p->m_lock_file = stream; fflush; }
StoreLockFile(lock_file, lastpid, pid) ==
  IF lastpid # pid THEN "open" ELSE lock_file

add_ref_write(t, r, fwrite_ok) ==
  /\ rec[r].alive /\ rec[r].pc = "write"
  /\ token[t] = [rec |-> r, live |-> FALSE]
  /\ LET i == Inode(rec[r].path)
         pid == rec[r].proc
         lastpid == rec[r].lastpid
     IN /\ rec' = [rec EXCEPT
                     ![r].lock_file = StoreLockFile(@, lastpid, pid),
                     ![r].pc = "idle", ![r].obtained_lock = FALSE,
                     ![r].lastpid = 0]
        /\ file_pid' = IF lastpid # pid /\ fwrite_ok
                       THEN [file_pid EXCEPT ![i] = pid] ELSE file_pid
        /\ hist' = [hist EXCEPT
             !.call = NoCall,
             !.last = [op |-> "add_ref", rec |-> r, outcome |-> "ok",
                       pid |-> lastpid]]
  /\ token' = [token EXCEPT ![t] = [rec |-> r, live |-> TRUE]]
  /\ UNCHANGED <<handle, map, os_lock, fatal, task_lock, mutex>>

\* ------------------------------- intrusive_ptr_release(FileLockSingleton*)
\* file_lock::unlock: releases the lock the process holds on the file.
OsUnlock(holder, p) == IF holder = p THEN 0 ELSE holder

\* if (--data_w->m_number_of_FileLockAccess_objects == 0)
IsLastRelease_Never(count) == FALSE

IsLastRelease(count) == count - 1 = 0

\* The destructor of a FileLockAccess. uninit is the value that reading a
\* never assigned m_lock_file yields; fclose of such a pointer is undefined:
\* the process crashes or goes on (ub).
intrusive_ptr_release_FLS(t, r, uninit, ub) ==
  /\ Idle(r)
  /\ token[t] = [rec |-> r, live |-> TRUE]
  /\ ~Embedded(t)
  /\ LET p == rec[r].proc
         i == Inode(rec[r].path)
         m_lock_file == IF rec[r].lock_file = "uninit" THEN uninit
                        ELSE rec[r].lock_file
         done(outcome, op) == [hist EXCEPT
             !.call = IF op = "none" THEN NoCall ELSE Call(op, r),
             !.last = [op |-> "release", rec |-> r, outcome |-> outcome,
                       pid |-> 0]]
     IN IF ~(rec[r].count > 0)
        THEN \* ASSERT(data_w->m_number_of_FileLockAccess_objects > 0);
             /\ fatal' = [fatal EXCEPT ![p] = "release: count > 0"]
             /\ hist' = done("fatal", "none")
             /\ UNCHANGED <<rec, os_lock, token>>
        ELSE IF ~IsLastRelease(rec[r].count)
        THEN /\ rec' = [rec EXCEPT ![r].count = @ - 1]
             /\ token' = [token EXCEPT ![t] = NoToken]
             /\ hist' = done("ok", "none")
             /\ UNCHANGED <<os_lock, fatal>>
        ELSE /\ os_lock' = [os_lock EXCEPT ![i] = OsUnlock(@, p)]
             /\ IF m_lock_file = "null"
                THEN \* ASSERT(p->m_lock_file);
                     /\ rec' = [rec EXCEPT ![r].count = @ - 1]
                     /\ fatal' = [fatal EXCEPT ![p] = "release: m_lock_file"]
                     /\ hist' = done("fatal", "unlock")
                     /\ UNCHANGED token
                ELSE IF m_lock_file = "garbage" /\ ub = "crash"
                THEN /\ rec' = [rec EXCEPT ![r].count = @ - 1]
                     /\ fatal' = [fatal EXCEPT ![p] = "release: fclose"]
                     /\ hist' = done("fatal", "unlock")
                     /\ UNCHANGED token
                ELSE /\ rec' = [rec EXCEPT ![r].count = @ - 1,
                                           ![r].lock_file = "null"]
                     /\ token' = [token EXCEPT ![t] = NoToken]
                     /\ hist' = [done("ok", "unlock") EXCEPT
                                   !.open[r] = IF m_lock_file = "open"
                                               THEN @ - 1 ELSE @]
                     /\ UNCHANGED fatal
  /\ UNCHANGED <<handle, map, file_pid, task_lock, mutex>>

\* ----------------------------------------------------------------------
\* SpecOS: NProcs processes, each with one FileLockSingleton for the same
\* lock file /a, construct and destruct FileLockAccess objects.
\* ----------------------------------------------------------------------
OSRecords == 1..NProcs

NoHist ==
  [call |-> NoCall, open |-> [r \in Records |-> 0], last |-> NoLast,
   tl |-> NoTL, held |-> [r \in Records |-> 0],
   before |-> [r \in Records |-> NoBefore]]

InitOS ==
  /\ os_lock = [i \in Inodes |-> 0]
  /\ \E stored \in 0..NProcs : file_pid = [i \in Inodes |-> IF i = 1 THEN stored ELSE 0]
  /\ rec = [r \in Records |->
              IF r \in OSRecords THEN FileLockSingleton(r, PathA) ELSE NoRecord]
  /\ token = [t \in Tokens |-> NoToken]
  /\ task_lock = [r \in Records |-> Data]
  /\ mutex = [m \in Mutexes |-> NoMutex]
  /\ handle = [h \in Handles |-> IF h \in OSRecords THEN Bound(h) ELSE Unbound]
  /\ map = OSRecords
  /\ fatal = [p \in Procs |-> "none"]
  /\ hist = NoHist

NextOS ==
  \E t \in Tokens, r \in OSRecords :
     \/ add_ref_increment(t, r)
     \/ add_ref_try_lock(t, r)
     \/ \E stream \in BOOLEAN, fread_ok \in BOOLEAN : add_ref_fopen(t, r, stream, fread_ok)
     \/ \E fwrite_ok \in BOOLEAN : add_ref_write(t, r, fwrite_ok)
     \/ \E uninit \in Uninitialized, ub \in {"crash", "survive"} :
          intrusive_ptr_release_FLS(t, r, uninit, ub)

SpecOS == InitOS /\ [][NextOS]_vars

\* ----------------------------------------------------------------------
\* The stateful task lock: AIStatefulTaskLockSingleton and
\* AIStatefulTaskNamedMutex.
\* ----------------------------------------------------------------------
MutexRec(m) == token[mutex[m].tok].rec

\* The named mutex exists and its process runs.
Running(m) == mutex[m].live /\ Alive(rec[MutexRec(m)].proc)

\* No call runs on the named mutex: the object is not thread safe, its calls
\* do not overlap.
Ready(m) == Running(m) /\ mutex[m].pc = "idle"

NoCallMade(h) == [h EXCEPT !.call = NoCall]

\* AIStatefulTaskNamedMutex(FileLockAccess const&) and (FileLock&): the
\* member m_file_lock_access is constructed (the add_ref steps above), then
\* the object exists, with a null m_stateful_task_lock_ref.
AIStatefulTaskNamedMutex_ctor(m, t) ==
  /\ ~mutex[m].live
  /\ token[t].live /\ ~Embedded(t)
  /\ Alive(rec[token[t].rec].proc)
  /\ mutex' = [mutex EXCEPT ![m] = [NoMutex EXCEPT !.live = TRUE, !.tok = t]]
  /\ hist' = NoCallMade(hist)
  /\ UNCHANGED <<handle, map, os_lock, file_pid, rec, token, task_lock, fatal>>

\* intrusive_ptr_release(AIStatefulTaskLockSingleton*)
intrusive_ptr_release_TLS_KeepOwner(d) ==
  [ref_count |-> d.ref_count - 1, owner |-> d.owner]

intrusive_ptr_release_TLS(d) ==
  [ref_count |-> d.ref_count - 1,
   owner |-> IF d.ref_count - 1 = 0 THEN 0 ELSE d.owner]

\* already_owned = data_w->m_ref_count > 0;
AlreadyOwned_Never(d) == FALSE

AlreadyOwned(d) == d.ref_count > 0

\* A call on the named mutex returned.
Returned(h, op, m, o, outcome) ==
  LET r == MutexRec(m)
  IN [h EXCEPT
        !.call = NoCall,
        !.tl = [op |-> op, owner |-> o, outcome |-> outcome,
                holder |-> h.held[r]],
        !.held[r] = IF op = "try_lock" /\ outcome = "true" THEN o
                    ELSE IF op = "unlock" /\ outcome = "ok" /\ @ = o THEN 0
                    ELSE @]

\* m_stateful_task_lock_ref = <the returned pointer>, the old value being
\* null: no reference is released.
Assigned_FinishAlways(m, res, o) ==
  [mutex EXCEPT ![m].ref = res, ![m].by = IF res THEN o ELSE @,
                ![m].pc = "idle", ![m].owner = 0, ![m].res = FALSE,
                ![m].lt = IF @ = "trylock" THEN "finished" ELSE @]

Assigned(m, res, o) ==
  [mutex EXCEPT ![m].ref = res, ![m].by = IF res THEN o ELSE @,
                ![m].pc = "idle", ![m].owner = 0, ![m].res = FALSE,
                \* if (lock_obtained) finish();
                ![m].lt = IF @ = "trylock" /\ res THEN "finished" ELSE @]

\* data_w->m_ref_count = 1; data_w->m_owner = owner;
Grabbed_OwnerNotSet(d, o) == [ref_count |-> 1, owner |-> d.owner]

Grabbed(d, o) == [ref_count |-> 1, owner |-> o]

\* AIStatefulTaskNamedMutex::try_lock(owner), up to the end of the first
\* critical section of AIStatefulTaskLockSingleton::try_lock.
try_lock(m, o) ==
  /\ Ready(m)
  /\ LET r == MutexRec(m)
         d == task_lock[r]
     IN IF AlreadyOwned(d)
        THEN /\ task_lock' = task_lock
             /\ IF mutex[m].ref
                THEN /\ mutex' = [mutex EXCEPT ![m].pc = "assign",
                                       ![m].owner = o, ![m].res = FALSE]
                     /\ hist' = NoCallMade(hist)
                ELSE /\ mutex' = Assigned(m, FALSE, o)
                     /\ hist' = Returned(hist, "try_lock", m, o, "false")
        ELSE /\ task_lock' = [task_lock EXCEPT ![r] = Grabbed(d, o)]
             /\ mutex' = [mutex EXCEPT ![m].pc = "add_ref", ![m].owner = o,
                                       ![m].res = TRUE]
             /\ hist' = NoCallMade(hist)
  /\ UNCHANGED <<handle, map, os_lock, file_pid, rec, token, fatal>>

\* res = this: intrusive_ptr_add_ref(AIStatefulTaskLockSingleton*).
try_lock_add_ref(m) ==
  /\ Running(m) /\ mutex[m].pc = "add_ref"
  /\ LET r == MutexRec(m)
         prev_count == task_lock[r].ref_count
     IN /\ task_lock' = [task_lock EXCEPT ![r].ref_count = @ + 1]
        /\ IF prev_count > 0
           THEN /\ mutex' = [mutex EXCEPT ![m].pc = "reset"]
                /\ UNCHANGED fatal
           ELSE \* ASSERT(prev_count > 0);
                /\ fatal' = [fatal EXCEPT ![rec[r].proc] = "add_ref: prev_count > 0"]
                /\ UNCHANGED mutex
  /\ hist' = NoCallMade(hist)
  /\ UNCHANGED <<handle, map, os_lock, file_pid, rec, token>>

\* Data_ts::wat(m_data)->m_ref_count = 1;
ResetRefCount_Keep(d) == d

ResetRefCount(d) == [d EXCEPT !.ref_count = 1]

\* The third critical section of AIStatefulTaskLockSingleton::try_lock, and
\* the return.
try_lock_reset(m) ==
  /\ Running(m) /\ mutex[m].pc = "reset"
  /\ LET r == MutexRec(m)
     IN /\ task_lock' = [task_lock EXCEPT ![r] = ResetRefCount(@)]
        /\ IF mutex[m].ref
           THEN /\ mutex' = [mutex EXCEPT ![m].pc = "assign"]
                /\ hist' = NoCallMade(hist)
           ELSE /\ mutex' = Assigned(m, TRUE, mutex[m].owner)
                /\ hist' = Returned(hist, "try_lock", m, mutex[m].owner, "true")
  /\ UNCHANGED <<handle, map, os_lock, file_pid, rec, token, fatal>>

\* m_stateful_task_lock_ref = <the returned pointer>, the old value pointing
\* to the task lock: the assignment releases that reference.
try_lock_assign(m) ==
  /\ Running(m) /\ mutex[m].pc = "assign"
  /\ LET r == MutexRec(m)
         o == mutex[m].owner
         res == mutex[m].res
     IN /\ task_lock' = [task_lock EXCEPT ![r] = intrusive_ptr_release_TLS(@)]
        /\ mutex' = Assigned(m, res, o)
        /\ hist' = Returned(hist, "try_lock", m, o,
                            IF res THEN "true" ELSE "false")
  /\ UNCHANGED <<handle, map, os_lock, file_pid, rec, token, fatal>>

\* ASSERT(is_locked() && m_stateful_task_lock_ref->is_owner(owner));
UnlockAllowed_AnyOwner(is_locked, is_owner) == is_locked

UnlockAllowed(is_locked, is_owner) == is_locked /\ is_owner

\* AIStatefulTaskNamedMutex::unlock(owner): the ASSERT.
unlock(m, o) ==
  /\ Ready(m)
  /\ LET r == MutexRec(m)
     IN IF UnlockAllowed(mutex[m].ref, task_lock[r].owner = o)
        THEN /\ mutex' = [mutex EXCEPT ![m].pc = "unlock", ![m].owner = o]
             /\ hist' = NoCallMade(hist)
             /\ UNCHANGED fatal
        ELSE /\ fatal' = [fatal EXCEPT ![rec[r].proc] = "unlock: is_locked && is_owner"]
             /\ hist' = Returned(hist, "unlock", m, o, "fatal")
             /\ UNCHANGED mutex
  /\ UNCHANGED <<handle, map, os_lock, file_pid, rec, token, task_lock>>

\* m_stateful_task_lock_ref.reset();
unlock_reset(m) ==
  /\ Running(m) /\ mutex[m].pc = "unlock"
  /\ LET r == MutexRec(m)
     IN /\ task_lock' = [task_lock EXCEPT ![r] = intrusive_ptr_release_TLS(@)]
        /\ hist' = Returned(hist, "unlock", m, mutex[m].owner, "ok")
  /\ mutex' = [mutex EXCEPT ![m].ref = FALSE, ![m].pc = "idle", ![m].owner = 0]
  /\ UNCHANGED <<handle, map, os_lock, file_pid, rec, token, fatal>>

\* ~intrusive_ptr() of the member m_stateful_task_lock_ref: a pointer that
\* is not null releases its reference.
intrusive_ptr_dtor_Leak(ref, d) == d

intrusive_ptr_dtor(ref, d) == IF ref THEN intrusive_ptr_release_TLS(d) ELSE d

\* The destructor: m_stateful_task_lock_ref is destructed first; the member
\* m_file_lock_access is destructed after it (intrusive_ptr_release_FLS).
AIStatefulTaskNamedMutex_dtor(m) ==
  /\ Ready(m)
  /\ LET r == MutexRec(m)
     IN /\ task_lock' = [task_lock EXCEPT ![r] = intrusive_ptr_dtor(mutex[m].ref, @)]
        /\ hist' = [NoCallMade(hist) EXCEPT
                      !.held[r] = IF mutex[m].ref /\ @ = mutex[m].by THEN 0 ELSE @]
  /\ mutex' = [mutex EXCEPT ![m] = NoMutex]
  /\ UNCHANGED <<handle, map, os_lock, file_pid, rec, token, fatal>>

\* ----------------------------------------------------------------------
\* SpecOwn: one process with one FileLockSingleton; FileLockAccess objects
\* and named mutexes are constructed and destructed, and NOwners tasks call
\* try_lock and unlock on the named mutexes. The lock file is free and
\* reading and writing the pid succeed; a named mutex m embeds the
\* FileLockAccess of the same number.
\* ----------------------------------------------------------------------
InitOwn ==
  /\ os_lock = [i \in Inodes |-> 0]
  /\ file_pid = [i \in Inodes |-> 0]
  /\ rec = [r \in Records |->
              IF r = 1 THEN FileLockSingleton(1, PathA) ELSE NoRecord]
  /\ token = [t \in Tokens |-> NoToken]
  /\ task_lock = [r \in Records |-> Data]
  /\ mutex = [m \in Mutexes |-> NoMutex]
  /\ handle = [h \in Handles |-> IF h = 1 THEN Bound(1) ELSE Unbound]
  /\ map = {1}
  /\ fatal = [p \in Procs |-> "none"]
  /\ hist = NoHist

NextOwn ==
  \/ \E t \in Tokens :
       \/ add_ref_increment(t, 1)
       \/ add_ref_try_lock(t, 1)
       \/ \E stream \in BOOLEAN : add_ref_fopen(t, 1, stream, TRUE)
       \/ add_ref_write(t, 1, TRUE)
       \/ \E uninit \in Uninitialized : intrusive_ptr_release_FLS(t, 1, uninit, "survive")
       \/ \E m \in Mutexes \cap {t} : AIStatefulTaskNamedMutex_ctor(m, t)
  \/ \E m \in Mutexes :
       \/ \E o \in Owners : try_lock(m, o)
       \/ try_lock_add_ref(m)
       \/ try_lock_reset(m)
       \/ try_lock_assign(m)
       \/ \E o \in Owners : unlock(m, o)
       \/ unlock_reset(m)
       \/ AIStatefulTaskNamedMutex_dtor(m)

SpecOwn == InitOwn /\ [][NextOwn]_vars

\* ----------------------------------------------------------------------
\* AIStatefulTaskLockTask: a task whose only state calls try_lock(this) on
\* its private named mutex.
\* ----------------------------------------------------------------------
\* this, the identity of the lock task whose member is named mutex m: a task
\* that is none of the NOwners tasks of the clients.
Self(m) == NOwners + m

IsLockTask_Never(m) == FALSE

IsLockTask(m) == mutex[m].lt # "none"

\* AIStatefulTaskLockTask(FileLockAccess const& file_lock): the member
\* m_stateful_task_lock_access is constructed from file_lock; the task
\* starts in AIStatefulTaskLockTask_trylock.
AIStatefulTaskLockTask_ctor(m, t) ==
  /\ ~mutex[m].live
  /\ token[t].live /\ ~Embedded(t)
  /\ Alive(rec[token[t].rec].proc)
  /\ mutex' = [mutex EXCEPT ![m] = [NoMutex EXCEPT !.live = TRUE, !.tok = t,
                                                   !.lt = "trylock"]]
  /\ hist' = NoCallMade(hist)
  /\ UNCHANGED <<handle, map, os_lock, file_pid, rec, token, task_lock, fatal>>

\* AIStatefulTaskLockTask::multiplex_impl(AIStatefulTaskLockTask_trylock):
\* one call of try_lock(this); the loop body breaks at once, and finish() is
\* called when the call returns true (see Assigned).
multiplex_impl(m) ==
  /\ mutex[m].lt = "trylock"
  /\ try_lock(m, Self(m))

\* AIStatefulTask::abort() on a task that is not finished; abort_impl() is
\* empty.
abort_impl_Reset(m) ==
  /\ Ready(m)
  /\ mutex[m].lt = "trylock"
  /\ mutex' = [mutex EXCEPT ![m].lt = "aborted"]
  /\ task_lock' = [task_lock EXCEPT ![MutexRec(m)] = Data]
  /\ hist' = NoCallMade(hist)
  /\ UNCHANGED <<handle, map, os_lock, file_pid, rec, token, fatal>>

abort_impl(m) ==
  /\ Ready(m)
  /\ mutex[m].lt = "trylock"
  /\ mutex' = [mutex EXCEPT ![m].lt = "aborted"]
  /\ hist' = NoCallMade(hist)
  /\ UNCHANGED <<handle, map, os_lock, file_pid, rec, token, task_lock, fatal>>

\* task::TaskLock(FileLockAccess const& file_lock_access): the member
\* m_file_lock_access is constructed from file_lock_access; the task starts
\* in TaskLock_lock.
TaskLock_ctor(m, t) ==
  /\ ~mutex[m].live
  /\ token[t].live /\ ~Embedded(t)
  /\ Alive(rec[token[t].rec].proc)
  /\ mutex' = [mutex EXCEPT ![m] = [NoMutex EXCEPT !.live = TRUE, !.tok = t,
                                                   !.lt = "TaskLock_lock"]]
  /\ hist' = NoCallMade(hist)
  /\ UNCHANGED <<handle, map, os_lock, file_pid, rec, token, task_lock, fatal>>

\* TaskLock::multiplex_impl. In TaskLock_lock: set_state(TaskLock_locked),
\* then lock(1), whose result lock_obtained is that of
\* AIStatefulTaskMutex::lock of the statefultask library: true falls through
\* to finish(), false calls wait(1). In TaskLock_locked: finish().
TaskLock_multiplex_impl(m, lock_obtained) ==
  /\ Ready(m)
  /\ \/ /\ mutex[m].lt = "TaskLock_lock"
        /\ mutex' = [mutex EXCEPT ![m].lt = IF lock_obtained THEN "finished"
                                            ELSE "TaskLock_wait"]
     \/ /\ mutex[m].lt = "TaskLock_locked"
        /\ mutex' = [mutex EXCEPT ![m].lt = "finished"]
  /\ hist' = NoCallMade(hist)
  /\ UNCHANGED <<handle, map, os_lock, file_pid, rec, token, task_lock, fatal>>

\* signal(1) by the statefultask library: the waiting task runs again, in
\* the state that multiplex_impl set before it called wait(1).
TaskLock_signal(m) ==
  /\ Ready(m)
  /\ mutex[m].lt = "TaskLock_wait"
  /\ mutex' = [mutex EXCEPT ![m].lt = "TaskLock_locked"]
  /\ hist' = NoCallMade(hist)
  /\ UNCHANGED <<handle, map, os_lock, file_pid, rec, token, task_lock, fatal>>

\* ----------------------------------------------------------------------
\* SpecTask: SpecOwn with lock tasks. A named mutex is either a client's
\* object, on which one task of the client calls try_lock and unlock, or the
\* private member of a lock task, on which only that task calls try_lock,
\* or stands for the FileLockAccess of a task::TaskLock. The destructor of a
\* lock task is the destructor of its member.
\* ----------------------------------------------------------------------
\* The task of the client.
ClientTask == 1

NextTask ==
  \/ \E t \in Tokens :
       \/ add_ref_increment(t, 1)
       \/ add_ref_try_lock(t, 1)
       \/ \E stream \in BOOLEAN : add_ref_fopen(t, 1, stream, TRUE)
       \/ add_ref_write(t, 1, TRUE)
       \/ \E uninit \in Uninitialized : intrusive_ptr_release_FLS(t, 1, uninit, "survive")
       \/ \E m \in Mutexes \cap {t} :
            \/ AIStatefulTaskNamedMutex_ctor(m, t)
            \/ AIStatefulTaskLockTask_ctor(m, t)
            \/ TaskLock_ctor(m, t)
  \/ \E m \in Mutexes :
       \/ ~IsLockTask(m) /\ try_lock(m, ClientTask)
       \/ multiplex_impl(m)
       \/ try_lock_add_ref(m)
       \/ try_lock_reset(m)
       \/ try_lock_assign(m)
       \/ ~IsLockTask(m) /\ unlock(m, ClientTask)
       \/ unlock_reset(m)
       \/ abort_impl(m)
       \/ \E lock_obtained \in BOOLEAN : TaskLock_multiplex_impl(m, lock_obtained)
       \/ TaskLock_signal(m)
       \/ AIStatefulTaskNamedMutex_dtor(m)

SpecTask == InitOwn /\ [][NextTask]_vars

\* unlock(owner) by the client whose try_lock through named mutex m
\* succeeded.
OwnerUnlocks(m) ==
  ~IsLockTask(m) /\ mutex[m].ref /\ unlock(m, mutex[m].by)

\* A finished AIStatefulTaskLockTask is destructed: the class has no unlock,
\* the destructor of its member is what releases the lock.
Discard(m) ==
  mutex[m].lt = "finished" /\ AIStatefulTaskNamedMutex_dtor(m)

\* ----------------------------------------------------------------------
\* SpecTaskFair: SpecTask with a fair engine and owners that let go. A lock
\* task that can run is run, a call that has begun is completed, a client
\* that obtained the lock calls unlock and a finished lock task is
\* destructed. Nothing is assumed about the order in which tasks are run.
\* ----------------------------------------------------------------------
Fairness ==
  \A m \in Mutexes :
    /\ WF_vars(multiplex_impl(m))
    /\ WF_vars(try_lock_add_ref(m))
    /\ WF_vars(try_lock_reset(m))
    /\ WF_vars(try_lock_assign(m))
    /\ WF_vars(unlock_reset(m))
    /\ WF_vars(OwnerUnlocks(m))
    /\ WF_vars(Discard(m))

SpecTaskFair == InitOwn /\ [][NextTask]_vars /\ Fairness

\* ----------------------------------------------------------------------
\* The registry: FileLock::set_filename and FileLock::~FileLock.
\* ----------------------------------------------------------------------
\* boost::filesystem::absolute(filename)
Absolute(filename) ==
  IF filename # <<>> /\ Head(filename) = "/" THEN filename ELSE Cwd \o filename

RECURSIVE Normal(_, _)
Normal(done, rest) ==
  IF rest = <<>> THEN done
  ELSE LET c == Head(rest)
       IN IF c = "." THEN Normal(done, Tail(rest))
          ELSE IF c = ".."
               THEN Normal(IF Len(done) > 1 THEN SubSeq(done, 1, Len(done) - 1)
                           ELSE done, Tail(rest))
               ELSE Normal(Append(done, c), Tail(rest))

\* path::lexically_normal(): "." and "name/.." are removed, symbolic links
\* are not resolved.
LexicallyNormal(path) == Normal(<<Head(path)>>, Tail(path))

\* The order of std::set<..., CanonicalPathCompare>: by the text of the path.
PathRank(path) == IF path = PathA THEN 1 ELSE IF path = PathB THEN 2 ELSE 3

\* boost::filesystem::equivalent(p1, p2, error_code): both paths are
\* stat()ed; when a stat() fails the result is false (with error_code set
\* when both fail), and the loop goes on to the next entry.
Equivalent(p1, p2, stat_ok) == stat_ok /\ Inode(p1) = Inode(p2)

\* The records in s_file_lock_map of process p.
Registry(p) == {r \in map : rec[r].proc = p}

\* shared_ptr::use_count() of a record: the one in the std::set and the
\* m_file_lock_instance members that point to it.
use_count(r) ==
  (IF r \in map THEN 1 ELSE 0)
  + Cardinality({h \in Handles : handle[h].state # "unbound"
                                 /\ handle[h].rec = r})

Abort(p, what) == [fatal EXCEPT ![p] = what]

\* filename.empty()
IsEmpty_Never(filename) == FALSE

IsEmpty(filename) == filename = <<>>

\* FileLock::set_filename(filename) in process 1; stat_ok tells whether the
\* stat() calls of equivalent() succeed.
set_filename(h, filename, stat_ok) ==
  /\ Alive(1)
  /\ handle[h].state \in {"unbound", "bound"}
  /\ hist' = NoCallMade(hist)
  /\ UNCHANGED <<os_lock, file_pid, token, task_lock, mutex>>
  /\ IF IsEmpty(filename)
     THEN /\ fatal' = Abort(1, "set_filename: !filename.empty()")
          /\ UNCHANGED <<rec, handle, map>>
     ELSE IF handle[h].state = "bound"
     THEN /\ fatal' = Abort(1, "set_filename: !m_file_lock_instance")
          /\ UNCHANGED <<rec, handle, map>>
     ELSE LET normal_path == LexicallyNormal(Absolute(filename))
              found == {r \in Registry(1) : Equivalent(rec[r].path, normal_path, stat_ok)}
          IN IF found # {}
             THEN /\ \E iter \in found :
                       /\ \A r \in found : PathRank(rec[iter].path) <= PathRank(rec[r].path)
                       /\ handle' = [handle EXCEPT ![h] = Bound(iter)]
                  /\ UNCHANGED <<rec, map, fatal>>
             ELSE IF \E r \in Registry(1) : rec[r].path = normal_path
             THEN \* ASSERT(res.second);
                  /\ fatal' = Abort(1, "set_filename: res.second")
                  /\ UNCHANGED <<rec, handle, map>>
             ELSE /\ \E new \in Records :
                       /\ rec[new] = NoRecord
                       /\ \A r \in Records : rec[r] = NoRecord => new <= r
                       /\ rec' = [rec EXCEPT ![new] = FileLockSingleton(1, normal_path)]
                       /\ map' = map \cup {new}
                       /\ handle' = [handle EXCEPT ![h] = Bound(new)]
                  /\ UNCHANGED fatal

\* use_count() == 2: the one in the std::set and our own.
IsLastHandle(count) == count = 2

\* FileLock::~FileLock(): the body, under the mutex of s_file_lock_map. The
\* count of the record is read under the data mutex of the record
\* (Data_ts::rat), which the body waits for.
FileLock_dtor(h) ==
  /\ Alive(1)
  /\ handle[h].state \in {"unbound", "bound"}
  /\ hist' = NoCallMade(hist)
  /\ UNCHANGED <<os_lock, file_pid, rec, token, task_lock, mutex>>
  /\ IF handle[h].state = "unbound"
     THEN \* if (!m_file_lock_instance) return;
          UNCHANGED <<handle, map, fatal>>
     ELSE LET canonical_path == rec[handle[h].rec].path
              found == {r \in Registry(1) : rec[r].path = canonical_path}
          IN IF found = {}
             THEN \* ASSERT(iter != file_lock_map_w->end());
                  /\ fatal' = Abort(1, "~FileLock: iter != end()")
                  /\ UNCHANGED <<handle, map>>
             ELSE \E iter \in found :
                    IF IsLastHandle(use_count(iter))
                    THEN /\ Idle(iter)
                         /\ IF rec[iter].count = 0
                            THEN /\ map' = map \ {iter}
                                 /\ handle' = [handle EXCEPT ![h].state = "dying"]
                                 /\ UNCHANGED fatal
                            ELSE \* ASSERT(m_number_of_FileLockAccess_objects == 0);
                                 /\ fatal' = Abort(1, "~FileLock: m_number_of_FileLockAccess_objects == 0")
                                 /\ UNCHANGED <<handle, map>>
                    ELSE /\ handle' = [handle EXCEPT ![h].state = "dying"]
                         /\ UNCHANGED <<map, fatal>>

\* FileLock::~FileLock(): after the body, the mutex being released already,
\* the member m_file_lock_instance is destructed; the record is deleted with
\* the last shared_ptr. The FileLock is gone: its place is taken by a new
\* FileLock(), not bound.
FileLock_dtor_member(h) ==
  /\ Alive(1)
  /\ handle[h].state = "dying"
  /\ handle' = [handle EXCEPT ![h] = Unbound]
  /\ LET r == handle[h].rec
     IN IF use_count(r) = 1
        THEN /\ rec' = [rec EXCEPT ![r] = NoRecord]
             /\ hist' = [NoCallMade(hist) EXCEPT !.open[r] = 0, !.held[r] = 0,
                                                 !.before[r] = NoBefore]
        ELSE /\ rec' = rec
             /\ hist' = NoCallMade(hist)
  /\ UNCHANGED <<os_lock, file_pid, token, task_lock, mutex, map, fatal>>

\* FileLockAccess(FileLock&) takes the record of a bound FileLock; the copy
\* constructor takes it of another FileLockAccess. The new object gets the
\* first id that is free.
CanConstruct(t, r) ==
  /\ \/ \E h \in Handles : handle[h] = Bound(r)
     \/ \E t2 \in Tokens : token[t2] = [rec |-> r, live |-> TRUE]
  /\ \A t2 \in Tokens : t2 < t => token[t2] # NoToken

\* ----------------------------------------------------------------------
\* SpecReg: one process; FileLock objects are bound to paths and destructed
\* by several threads, FileLockAccess objects are constructed from them and
\* destructed. No other process uses the lock files, and opening, reading
\* and writing them succeed.
\* ----------------------------------------------------------------------
RawPaths ==
  {<<>>, <<"a">>, <<"/", "a">>, <<"/", "l">>, <<"/", "b", "..", "l">>, <<".", "b">>}

InitReg ==
  /\ os_lock = [i \in Inodes |-> 0]
  /\ file_pid = [i \in Inodes |-> 0]
  /\ rec = [r \in Records |-> NoRecord]
  /\ token = [t \in Tokens |-> NoToken]
  /\ task_lock = [r \in Records |-> Data]
  /\ mutex = [m \in Mutexes |-> NoMutex]
  /\ handle = [h \in Handles |-> Unbound]
  /\ map = {}
  /\ fatal = [p \in Procs |-> "none"]
  /\ hist = NoHist

NextReg ==
  \/ \E h \in Handles :
       \/ \E filename \in RawPaths, stat_ok \in BOOLEAN :
            set_filename(h, filename, stat_ok)
       \/ FileLock_dtor(h)
       \/ FileLock_dtor_member(h)
  \/ \E t \in Tokens, r \in Records :
       \/ CanConstruct(t, r) /\ add_ref_increment(t, r)
       \/ CanConstruct(t, r) /\ add_ref_try_lock(t, r)
       \/ add_ref_fopen(t, r, TRUE, TRUE)
       \/ add_ref_write(t, r, TRUE)
       \/ \E uninit \in Uninitialized : intrusive_ptr_release_FLS(t, r, uninit, "survive")

SpecReg == InitReg /\ [][NextReg]_vars

\* ----------------------------------------------------------------------
\* The mutexes: FileLock::~FileLock step by step. A FileLock whose destructor
\* holds the mutex of s_file_lock_map is "locked"; when it holds the data
\* mutex of its record too it is "reading".
\* ----------------------------------------------------------------------
\* The mutex of s_file_lock_map is free.
RegistryFree_Always == TRUE

RegistryFree == \A h \in Handles : handle[h].state \notin {"locked", "reading"}

\* The data mutex of record r is not held by a destructor of a FileLock.
DataFree(r) ==
  \A h \in Handles : ~(handle[h].state = "reading" /\ handle[h].rec = r)

\* if (!m_file_lock_instance) return;
\* file_lock_map_ts::wat file_lock_map_w(s_file_lock_map);
FileLock_dtor_wat(h) ==
  /\ Alive(1)
  /\ handle[h].state = "bound"
  /\ RegistryFree
  /\ handle' = [handle EXCEPT ![h].state = "locked"]
  /\ hist' = NoCallMade(hist)
  /\ UNCHANGED <<os_lock, file_pid, rec, token, task_lock, mutex, map, fatal>>

\* find, ASSERT(iter != end()) and the test of use_count(); for the last
\* FileLock of the record, Data_ts::rat takes the data mutex of the record
\* as soon as that is free; otherwise the body ends here.
FileLock_dtor_find(h) ==
  /\ Alive(1)
  /\ handle[h].state = "locked"
  /\ hist' = NoCallMade(hist)
  /\ UNCHANGED <<os_lock, file_pid, rec, token, task_lock, mutex, map>>
  /\ LET canonical_path == rec[handle[h].rec].path
         found == {r \in Registry(1) : rec[r].path = canonical_path}
     IN IF found = {}
        THEN /\ fatal' = Abort(1, "~FileLock: iter != end()")
             /\ UNCHANGED handle
        ELSE \E iter \in found :
               IF IsLastHandle(use_count(iter))
               THEN /\ Idle(iter)
                    /\ handle' = [handle EXCEPT ![h].state = "reading"]
                    /\ UNCHANGED fatal
               ELSE /\ handle' = [handle EXCEPT ![h].state = "dying"]
                    /\ UNCHANGED fatal

\* ASSERT(...->m_number_of_FileLockAccess_objects == 0); erase(iter); and the
\* end of the body, where both mutexes are released.
FileLock_dtor_rat(h) ==
  /\ Alive(1)
  /\ handle[h].state = "reading"
  /\ hist' = NoCallMade(hist)
  /\ UNCHANGED <<os_lock, file_pid, rec, token, task_lock, mutex>>
  /\ LET iter == handle[h].rec
     IN IF rec[iter].count = 0
        THEN /\ map' = map \ {iter}
             /\ handle' = [handle EXCEPT ![h].state = "dying"]
             /\ UNCHANGED fatal
        ELSE /\ fatal' = Abort(1, "~FileLock: m_number_of_FileLockAccess_objects == 0")
             /\ UNCHANGED <<handle, map>>

\* What a call on FileLock h that needs m_file_lock_instance leaves behind.
Used(h, op, ok) ==
  [NoCallMade(hist) EXCEPT
     !.last = [op |-> op, rec |-> handle[h].rec,
               outcome |-> IF ok THEN "ok" ELSE "fatal", pid |-> 0]]

\* FileLock::canonical_path(): ASSERT(m_file_lock_instance), then the path
\* of the record.
canonical_path_NoAssert(h) ==
  /\ Alive(1)
  /\ handle[h].state \in {"unbound", "bound"}
  /\ hist' = Used(h, "canonical_path", TRUE)
  /\ UNCHANGED <<os_lock, file_pid, rec, token, task_lock, mutex, handle, map, fatal>>

canonical_path(h) ==
  /\ Alive(1)
  /\ handle[h].state \in {"unbound", "bound"}
  /\ hist' = Used(h, "canonical_path", handle[h].state = "bound")
  /\ fatal' = IF handle[h].state = "bound" THEN fatal
              ELSE Abort(1, "canonical_path: m_file_lock_instance")
  /\ UNCHANGED <<os_lock, file_pid, rec, token, task_lock, mutex, handle, map>>

\* FileLock::get_instance(), called by the constructors of FileLockAccess
\* that take a FileLock: ASSERT(m_file_lock_instance), then the pointer to
\* the record, on which intrusive_ptr_add_ref is called next.
get_instance(h) ==
  /\ Alive(1)
  /\ handle[h].state \in {"unbound", "bound"}
  /\ hist' = Used(h, "get_instance", handle[h].state = "bound")
  /\ fatal' = IF handle[h].state = "bound" THEN fatal
              ELSE Abort(1, "get_instance: m_file_lock_instance")
  /\ UNCHANGED <<os_lock, file_pid, rec, token, task_lock, mutex, handle, map>>

\* ----------------------------------------------------------------------
\* SpecLock: SpecReg with the destructor of FileLock in steps and one lock
\* file. A call that needs a mutex begins when the mutex is free.
\* ----------------------------------------------------------------------
LockPaths == {<<"/", "a">>}

NextLock ==
  \/ \E h \in Handles :
       \/ \E filename \in LockPaths : RegistryFree /\ set_filename(h, filename, TRUE)
       \/ canonical_path(h)
       \/ get_instance(h)
       \/ FileLock_dtor_wat(h)
       \/ FileLock_dtor_find(h)
       \/ FileLock_dtor_rat(h)
       \/ FileLock_dtor_member(h)
  \/ \E t \in Tokens, r \in Records :
       \/ CanConstruct(t, r) /\ DataFree(r) /\ add_ref_increment(t, r)
       \/ CanConstruct(t, r) /\ DataFree(r) /\ add_ref_try_lock(t, r)
       \/ add_ref_fopen(t, r, TRUE, TRUE)
       \/ add_ref_write(t, r, TRUE)
       \/ DataFree(r) /\ intrusive_ptr_release_FLS(t, r, "null", "survive")

SpecLock == InitReg /\ [][NextLock]_vars

\* ----------------------------------------------------------------------
\* SpecBind: one process binds FileLock objects to paths and destructs
\* them, several threads at a time; no FileLockAccess is constructed.
\* ----------------------------------------------------------------------
NextBind ==
  \E h \in Handles :
    \/ \E filename \in RawPaths, stat_ok \in BOOLEAN :
         set_filename(h, filename, stat_ok)
    \/ canonical_path(h)
    \/ FileLock_dtor(h)
    \/ FileLock_dtor_member(h)

SpecBind == InitReg /\ [][NextBind]_vars

\* ----------------------------------------------------------------------
\* SpecThreads: SpecLock with named mutexes. Threads bind and destruct
\* FileLock objects, construct and destruct FileLockAccess objects (opening
\* the lock file may fail) and named mutexes, and the task of the client
\* calls try_lock and unlock on the named mutexes. A critical section of
\* the task lock takes no other mutex and is one step.
\* ----------------------------------------------------------------------
NextThreads ==
  \/ \E h \in Handles :
       \/ \E filename \in LockPaths : RegistryFree /\ set_filename(h, filename, TRUE)
       \/ FileLock_dtor_wat(h)
       \/ FileLock_dtor_find(h)
       \/ FileLock_dtor_rat(h)
       \/ FileLock_dtor_member(h)
  \/ \E t \in Tokens, r \in Records :
       \/ CanConstruct(t, r) /\ DataFree(r) /\ add_ref_increment(t, r)
       \/ CanConstruct(t, r) /\ DataFree(r) /\ add_ref_try_lock(t, r)
       \/ \E stream \in BOOLEAN : add_ref_fopen(t, r, stream, TRUE)
       \/ add_ref_write(t, r, TRUE)
       \/ DataFree(r) /\ intrusive_ptr_release_FLS(t, r, "null", "survive")
       \/ \E m \in Mutexes \cap {t} : AIStatefulTaskNamedMutex_ctor(m, t)
  \/ \E m \in Mutexes :
       \/ try_lock(m, ClientTask)
       \/ try_lock_add_ref(m)
       \/ try_lock_reset(m)
       \/ try_lock_assign(m)
       \/ OwnerUnlocks(m)
       \/ unlock_reset(m)
       \/ AIStatefulTaskNamedMutex_dtor(m)

SpecThreads == InitReg /\ [][NextThreads]_vars

\* ----------------------------------------------------------------------
\* SpecThreadsFair: SpecThreads with threads that are scheduled: a thread
\* that is inside an operation and can go on does so. Nothing is assumed
\* about which of the threads that wait for a mutex gets it.
\* ----------------------------------------------------------------------
FairThreads ==
  /\ \A h \in Handles :
       /\ WF_vars(FileLock_dtor_find(h))
       /\ WF_vars(FileLock_dtor_rat(h))
       /\ WF_vars(FileLock_dtor_member(h))
  /\ \A t \in Tokens, r \in Records :
       /\ WF_vars(\E stream \in BOOLEAN : add_ref_fopen(t, r, stream, TRUE))
       /\ WF_vars(add_ref_write(t, r, TRUE))
  /\ \A m \in Mutexes :
       /\ WF_vars(try_lock_add_ref(m))
       /\ WF_vars(try_lock_reset(m))
       /\ WF_vars(try_lock_assign(m))
       /\ WF_vars(unlock_reset(m))

SpecThreadsFair == InitReg /\ [][NextThreads]_vars /\ FairThreads

\* ----------------------------------------------------------------------
\* SpecRvalue: FileLockAccess objects and named mutexes constructed from a
\* FileLock that is passed as an rvalue, next to those constructed from an
\* lvalue or copied. The FileLockAccess constructed from FileLock h has the
\* id h.
\* ----------------------------------------------------------------------
\* ASSERT(m_debug_weak_ptr.use_count() > 2)
Accepted_WithoutOther(count) == count > 1

Accepted(count) == count > 2

RvalueAssert == "FileLockAccess(FileLock&&): m_debug_weak_ptr.use_count() > 2"

\* FileLock h is the argument of a running FileLockAccess(FileLock&&).
Passed(h) == h \in Handles /\ handle[h].state = "passed"

\* FileLockAccess(FileLock&& file_lock), the member initializers:
\* get_instance() with its ASSERT(m_file_lock_instance), and the first step
\* of intrusive_ptr_add_ref on the record.
FileLockAccess_rvalue(t, h) ==
  /\ Alive(1)
  /\ handle[h].state \in {"unbound", "bound"}
  /\ IF handle[h].state = "unbound"
     THEN /\ fatal' = Abort(1, "get_instance: m_file_lock_instance")
          /\ hist' = NoCallMade(hist)
          /\ UNCHANGED <<os_lock, file_pid, rec, token, task_lock, mutex, handle, map>>
     ELSE /\ \/ intrusive_ptr_add_ref_increment(t, handle[h].rec)
             \/ intrusive_ptr_add_ref_try_lock(t, handle[h].rec)
          /\ handle' = [handle EXCEPT ![h].state = "passed"]

\* intrusive_ptr_add_ref has thrown: the exception leaves the constructor,
\* its body is not run and no FileLockAccess exists.
FileLockAccess_rvalue_thrown(t, h) ==
  /\ Alive(1)
  /\ handle[h].state = "passed"
  /\ token[t] = NoToken
  /\ handle' = [handle EXCEPT ![h].state = "bound"]
  /\ hist' = NoCallMade(hist)
  /\ UNCHANGED <<os_lock, file_pid, rec, token, task_lock, mutex, map, fatal>>

\* The body of FileLockAccess(FileLock&&), run when intrusive_ptr_add_ref
\* has returned: ASSERT(m_debug_weak_ptr.use_count() > 2).
FileLockAccess_rvalue_body(t, h) ==
  /\ Alive(1)
  /\ handle[h].state = "passed"
  /\ token[t] = [rec |-> handle[h].rec, live |-> TRUE]
  /\ LET r == handle[h].rec
         accepted == Accepted(use_count(r))
     IN /\ IF accepted
           THEN /\ handle' = [handle EXCEPT ![h].state = "bound"]
                /\ UNCHANGED fatal
           ELSE /\ fatal' = Abort(1, RvalueAssert)
                /\ UNCHANGED handle
        /\ hist' = [hist EXCEPT
             !.call = NoCall,
             !.last = [op |-> "FileLockAccess(FileLock&&)", rec |-> r,
                       outcome |-> IF accepted THEN "ok" ELSE "fatal",
                       pid |-> 0]]
  /\ UNCHANGED <<os_lock, file_pid, rec, token, task_lock, mutex, map>>

NextRvalue ==
  \/ \E h \in Handles :
       \/ \E filename \in LockPaths : set_filename(h, filename, TRUE)
       \/ FileLock_dtor(h)
       \/ FileLock_dtor_member(h)
       \/ \E t \in Tokens \cap {h} :
            \/ FileLockAccess_rvalue(t, h)
            \/ FileLockAccess_rvalue_thrown(t, h)
            \/ FileLockAccess_rvalue_body(t, h)
  \/ \E t \in Tokens, r \in Records :
       \/ CanConstruct(t, r) /\ add_ref_increment(t, r)
       \/ CanConstruct(t, r) /\ add_ref_try_lock(t, r)
       \/ \E stream \in BOOLEAN : add_ref_fopen(t, r, stream, TRUE)
       \/ add_ref_write(t, r, TRUE)
       \/ ~Passed(t) /\ intrusive_ptr_release_FLS(t, r, "null", "survive")
  \/ \E m \in Mutexes :
       \/ \E t \in Tokens \cap {m} : ~Passed(t) /\ AIStatefulTaskNamedMutex_ctor(m, t)
       \/ AIStatefulTaskNamedMutex_dtor(m)

SpecRvalue == InitReg /\ [][NextRvalue]_vars

\* ======================================================================
\* Properties
\* ======================================================================
\* The record is seen by other threads (its data mutex is free).
Observable(r) == rec[r].alive /\ rec[r].pc = "idle"

\* The process of record r has a FileLockAccess: the count is positive and
\* is not the provisional 1 of an attempt whose outcome is still open.
HasAccess(r) == rec[r].alive /\ rec[r].count > 0 /\ rec[r].pc # "fopen"

SameFile(r1, r2) ==
  /\ rec[r1].alive /\ rec[r2].alive
  /\ Inode(rec[r1].path) = Inode(rec[r2].path)

OtherProcess(r1, r2) == SameFile(r1, r2) /\ rec[r1].proc # rec[r2].proc

\* C1: of the processes that use one lock file, at most one at a time has a
\* positive number of FileLockAccess objects, and that one holds the file
\* lock.
C1_CrossProcessExclusion ==
  /\ \A r1, r2 \in Records :
       OtherProcess(r1, r2) => ~(HasAccess(r1) /\ HasAccess(r2))
  /\ \A r \in Records :
       HasAccess(r) => os_lock[Inode(rec[r].path)] = rec[r].proc

\* One process has access while the attempt of another one was refused.
C1_Witness ==
  \E r1, r2 \in Records :
    /\ OtherProcess(r1, r2)
    /\ HasAccess(r1) /\ Observable(r1)
    /\ hist.last = [op |-> "add_ref", rec |-> r2,
                    outcome |-> "LockUnavailable", pid |-> rec[r1].proc]

\* C3: whenever the data mutex of a record is free, the process holds the
\* file lock if and only if the count of FileLockAccess objects is positive.
C3_LockHeldIffCount ==
  \A r \in Records :
    Observable(r) =>
      ((os_lock[Inode(rec[r].path)] = rec[r].proc) <=> (rec[r].count > 0))

\* C4: file_lock::try_lock is called by the construction that finds the count
\* 0 and by no other, file_lock::unlock by the destruction that takes the
\* count from 1 to 0 and by no other; every other construction or destruction
\* changes the count by one and nothing else.
C4_Step(r) ==
  LET c == rec[r].count
      c2 == rec'[r].count
      tried == hist'.call = Call("try_lock", r)
      unlocked == hist'.call = Call("unlock", r)
  IN /\ tried => c = 0
     /\ (c = 0 /\ c2 > 0) => tried
     /\ unlocked => c = 1 /\ c2 = 0
     /\ (rec[r].pc = "idle" /\ c = 1 /\ c2 = 0) => unlocked
     /\ (c > 0 /\ c2 > 0 /\ c2 # c) =>
          /\ c2 \in {c - 1, c + 1}
          /\ rec' = [rec EXCEPT ![r].count = c2]
          /\ UNCHANGED <<os_lock, file_pid, fatal, task_lock, mutex>>
          /\ hist' = [hist EXCEPT !.last = hist'.last, !.call = NoCall]

C4_OneTryLockOneUnlock == [][\A r \in Records : C4_Step(r)]_vars

\* Two FileLockAccess objects were constructed and destructed: one call of
\* try_lock, one of unlock.
C4_Witness ==
  \E r \in Records :
    /\ hist.call = Call("unlock", r) /\ rec[r].count = 0
    /\ hist.last = [op |-> "release", rec |-> r, outcome |-> "ok", pid |-> 0]
    /\ \A t \in Tokens : token[t] = NoToken

\* C5: while process A has a FileLockAccess, the construction of the first
\* FileLockAccess of another process B on the same file is refused by
\* try_lock and ends (it never waits) in the exception 'Failed to obtain file
\* lock', with no FileLockAccess made.
C5_Refused(rB) ==
  /\ (/\ hist'.call = Call("try_lock", rB)
      /\ \E rA \in Records : OtherProcess(rA, rB) /\ HasAccess(rA))
     => ~rec'[rB].obtained_lock
  /\ (rec[rB].pc = "fopen" /\ ~rec[rB].obtained_lock /\ rec'[rB] # rec[rB])
     => /\ hist'.last.op = "add_ref" /\ hist'.last.rec = rB
        /\ hist'.last.outcome = "LockUnavailable"
        /\ rec'[rB].count = 0 /\ rec'[rB].pc = "idle"
        /\ \A t \in Tokens : token'[t].rec # rB

C5_NeverWaits ==
  \A r \in Records :
    (rec[r].alive /\ rec[r].pc = "fopen") =>
      \A stream \in BOOLEAN :
        \E t \in Tokens : ENABLED add_ref_fopen(t, r, stream, TRUE)

C5_OtherProcessRefused ==
  /\ [][\A rB \in Records : C5_Refused(rB)]_vars
  /\ []C5_NeverWaits
  /\ [](\A rA, rB \in Records :
          (OtherProcess(rA, rB) /\ HasAccess(rA)) => ~HasAccess(rB))

\* B was refused while A has access.
C5_Witness ==
  \E rA, rB \in Records :
    /\ OtherProcess(rA, rB) /\ HasAccess(rA)
    /\ hist.last.op = "add_ref" /\ hist.last.rec = rB
    /\ hist.last.outcome = "LockUnavailable"

\* C6: after an attempt that try_lock refused, the record is as it was before
\* the attempt: the count is 0, the process does not hold the file lock, the
\* stream the attempt opened is closed, and the next construction calls try_lock again.
C6_RefusedNow(r) ==
  /\ Observable(r)
  /\ hist.last.op = "add_ref" /\ hist.last.rec = r
  /\ hist.last.outcome = "LockUnavailable"

C6_RefusalLeavesNothing ==
  /\ [](\A r \in Records : C6_RefusedNow(r) =>
          /\ rec[r] = hist.before[r].rec
          /\ rec[r].count = 0
          /\ os_lock[Inode(rec[r].path)] # rec[r].proc
          /\ hist.open[r] = hist.before[r].open
          /\ \A t \in Tokens : token[t].rec # r)
  /\ [][\A r \in Records :
          (C6_RefusedNow(r) /\ \E t \in Tokens : token'[t].rec = r)
             => hist'.call = Call("try_lock", r)]_vars

\* A refused attempt, followed by a second attempt on the same record.
C6_Witness ==
  \E r \in Records :
    /\ C6_RefusedNow(r)
    /\ hist.before[r].rec.lock_file = "null"

\* ----------------------------------------------------------------------
\* The ownership claim (SpecOwn)
\* ----------------------------------------------------------------------
Holders(r) == {m \in Mutexes : mutex[m].live /\ mutex[m].ref /\ MutexRec(m) = r}

C2_OneHolder ==
  \A r \in Records :
    /\ Cardinality(Holders(r)) <= 1
    /\ \A m \in Holders(r) :
         /\ task_lock[r].owner = mutex[m].by
         /\ task_lock[r].ref_count >= 1

C2_ClaimStep ==
  \A r \in Records :
    (task_lock'[r].owner # task_lock[r].owner /\ task_lock'[r].owner # 0)
      => (task_lock[r] = Data /\ Holders(r) = {})

\* C2: in one process, whatever the interleaving of try_lock and unlock calls
\* through the named mutexes of one FileLockSingleton, a task becomes the
\* owner of the claim only when the claim is released (no owner, ref_count
\* 0, no named mutex holding it), at most one named mutex holds the claim,
\* and the owner recorded in the claim is the task whose try_lock returned
\* true through that named mutex.
C2_InProcessExclusion == [](C2_OneHolder) /\ [][C2_ClaimStep]_vars

\* A try_lock of one task returned false while a named mutex holds the claim
\* for another task.
C2_Witness ==
  /\ hist.tl.op = "try_lock" /\ hist.tl.outcome = "false"
  /\ \E m \in Holders(1) : mutex[m].by # hist.tl.owner
  /\ Alive(1)

\* C7: when a try_lock returns true, no other task is between its own
\* successful try_lock and its unlock on that FileLockSingleton.
C7_HandOver ==
  (hist.tl.op = "try_lock" /\ hist.tl.outcome = "true")
    => hist.tl.holder \in {0, hist.tl.owner}

C8_Step ==
  /\ \A m \in Mutexes :
       (mutex[m].live /\ mutex[m].pc = "idle" /\ mutex'[m].pc = "unlock")
         => (mutex[m].ref /\ task_lock[MutexRec(m)].owner = mutex'[m].owner)
  /\ (hist'.tl # hist.tl /\ hist'.tl.op = "unlock" /\ hist'.tl.outcome = "fatal")
       => (fatal'[1] # "none" /\ task_lock' = task_lock)
  /\ \A r \in Records :
       (hist'.tl # hist.tl /\ hist'.tl.op = "unlock" /\ task_lock'[r] # task_lock[r])
         => (hist'.tl.outcome = "ok" /\ task_lock[r].owner = hist'.tl.owner)

\* C8: an unlock(owner) call goes on to release the claim only when the named
\* mutex holds the claim and owner is the owner recorded in the claim; any
\* other unlock call stops the process on the failed ASSERT and leaves owner
\* and ref_count of the claim as they were.
C8_UnlockByNonOwnerIsFatal == [][C8_Step]_vars

\* An unlock call by a task that is not the owner of the claim stopped the
\* process; the claim is still owned by the other task.
C8_Witness ==
  /\ hist.tl.op = "unlock" /\ hist.tl.outcome = "fatal"
  /\ fatal[1] # "none"
  /\ task_lock[1].owner \notin {0, hist.tl.owner}
  /\ task_lock[1].ref_count = 1

\* ----------------------------------------------------------------------
\* The registry (SpecReg)
\* ----------------------------------------------------------------------
HandlesOf(r) ==
  {h \in Handles : handle[h].state \in {"bound", "dying"} /\ handle[h].rec = r}

Outstanding(r) == \E t \in Tokens : token[t] = [rec |-> r, live |-> TRUE]

\* C9: as long as the process has not been stopped by a failed ASSERT, a
\* record with an outstanding FileLockAccess is in s_file_lock_map, is not
\* deleted and has a FileLock left: the destruction of its last FileLock
\* stops the process.
C9_NoHandleLeftWhileAccessed ==
  \A r \in Records :
    (Outstanding(r) /\ Alive(1))
      => /\ rec[r].alive /\ rec[r].count > 0
         /\ r \in map
         /\ HandlesOf(r) # {}

\* C10: all FileLock objects bound to paths of one inode point to one
\* FileLockSingleton, and s_file_lock_map holds no two records whose
\* canonical paths are the same file.
C10_OneRecordPerInode ==
  /\ \A h1, h2 \in Handles :
       (handle[h1].state = "bound" /\ handle[h2].state = "bound"
        /\ Inode(rec[handle[h1].rec].path) = Inode(rec[handle[h2].rec].path))
         => handle[h1].rec = handle[h2].rec
  /\ \A r1, r2 \in Registry(1) :
       Inode(rec[r1].path) = Inode(rec[r2].path) => r1 = r2

C11_ReadBeforeWrite ==
  \A r \in Records :
    (rec[r].alive /\ rec[r].pc = "write")
      => /\ rec[r].lastpid \in {0, file_pid[Inode(rec[r].path)]}
         /\ os_lock[Inode(rec[r].path)] = rec[r].proc

C11_Step ==
  /\ \A r \in Records :
       (rec[r].alive /\ rec[r].pc = "write" /\ rec'[r].pc = "idle")
         => LET i == Inode(rec[r].path)
                pid == rec[r].proc
            IN /\ file_pid'[i] \in {pid, file_pid[i]}
               /\ rec[r].lastpid = pid => (file_pid[i] = pid /\ file_pid'[i] = pid)
               /\ hist'.last.pid = rec[r].lastpid
  /\ file_pid' # file_pid
       => \E r \in Records :
            /\ rec[r].alive /\ rec[r].pc = "write" /\ rec'[r].pc = "idle"
            /\ rec[r].lastpid # rec[r].proc
            /\ file_pid' = [file_pid EXCEPT ![Inode(rec[r].path)] = rec[r].proc]

Owned(r) == task_lock[r].owner # 0

\* The process of record r holds the flock of the record's lock file.
HoldsOsLock(r) == os_lock[Inode(rec[r].path)] = rec[r].proc

\* C12: in every reachable state, if the task lock of a record has an owner,
\* then the record's number of FileLockAccess objects is positive and the
\* record's process holds the flock; whatever the order in which named
\* mutexes and lock tasks are constructed, locked, unlocked and destructed.
C12_OwnedImpliesFileLock ==
  \A r \in Records :
    Owned(r) => rec[r].alive /\ rec[r].count > 0 /\ HoldsOsLock(r)

\* A lock task owns the task lock next to a named mutex of a client.
C12_Witness ==
  /\ \E m \in Mutexes :
       /\ mutex[m].lt = "finished" /\ mutex[m].ref
       /\ task_lock[MutexRec(m)].owner = Self(m)
       /\ rec[MutexRec(m)].count > 0 /\ HoldsOsLock(MutexRec(m))
  /\ \E m \in Mutexes : mutex[m].live /\ mutex[m].lt = "none"
  /\ hist.tl.op = "try_lock" /\ hist.tl.outcome = "true"

\* C13: in every reachable state of a task lock, the states between the
\* critical sections of try_lock included, m_owner is not null if and only
\* if m_ref_count > 0.
C13_OwnerIffRefCount ==
  \A r \in Records :
    /\ task_lock[r].ref_count >= 0
    /\ Owned(r) <=> task_lock[r].ref_count > 0

\* Between the critical sections of a successful try_lock (the count is 2),
\* after an unlock brought the count back to 0.
C13_Witness ==
  /\ \E m \in Mutexes :
       /\ mutex[m].live /\ mutex[m].pc = "reset"
       /\ task_lock[MutexRec(m)].ref_count = 2
       /\ task_lock[MutexRec(m)].owner = mutex[m].owner
  /\ hist.tl.op = "unlock" /\ hist.tl.outcome = "ok"

\* ----------------------------------------------------------------------
\* The lock tasks as state machines.
\* ----------------------------------------------------------------------
\* The state in which a run of the task tries to obtain the lock.
Locking(m) == mutex[m].lt \in {"trylock", "TaskLock_lock"}

\* The task has finished.
Locked(m) == mutex[m].lt = "finished"

\* The try_lock call of a run of lock task m returns in this step.
TryLockReturns(m) ==
  /\ mutex[m].lt = "trylock" /\ mutex[m].pc \in {"reset", "assign"}
  /\ mutex'[m].pc = "idle"

\* The statement as it stands, for every lock task: a task that is not
\* finished stays in Locking, also after a failed attempt, and finishes only
\* from Locking.
C14_Retry ==
  \A m \in Mutexes :
    (IsLockTask(m) /\ mutex'[m].live) =>
      /\ Locking(m) => mutex'[m].lt \in {mutex[m].lt, "finished", "aborted"}
      /\ ~Locking(m) => mutex'[m].lt = mutex[m].lt

C14_RetryUntilLocked == [][C14_Retry]_vars

C14_OneAttemptPerRun ==
  \A m \in Mutexes :
    (mutex[m].live /\ IsLockTask(m)) =>
      /\ mutex[m].pc # "idle" => mutex[m].lt = "trylock" /\ mutex[m].owner = Self(m)
      /\ mutex[m].ref => mutex[m].lt = "finished" /\ mutex[m].by = Self(m)

C14_Step ==
  \A m \in Mutexes :
    (IsLockTask(m) /\ mutex'[m].live) =>
      LET lt == mutex[m].lt
          lt2 == mutex'[m].lt
      IN /\ lt = "trylock" =>
              /\ lt2 \in {"trylock", "finished", "aborted"}
              /\ lt2 = "finished" <=> TryLockReturns(m) /\ mutex[m].res
              /\ (lt2 = "finished") = mutex'[m].ref
              /\ (TryLockReturns(m) /\ ~mutex[m].res) =>
                    mutex'[m].lt = "trylock" /\ mutex'[m].pc = "idle"
         /\ lt = "TaskLock_lock" => lt2 \in {lt, "finished", "TaskLock_wait"}
         /\ lt = "TaskLock_wait" => lt2 \in {lt, "TaskLock_locked"}
         /\ lt = "TaskLock_locked" => lt2 \in {lt, "finished"}
         /\ lt \in {"finished", "aborted"} => lt2 = lt

\* C14: a run of an AIStatefulTaskLockTask calls try_lock(this) once; when
\* the call returns true the task finishes holding the lock, when it returns
\* false the task returns without finishing, stays in its only state and can
\* be run again, which calls try_lock again. A run of a task::TaskLock in
\* TaskLock_lock calls lock(1) once and finishes on success; on failure it
\* waits in state TaskLock_locked and, when it is signalled, finishes
\* without another attempt.
C14_LockTaskStateMachine == [](C14_OneAttemptPerRun) /\ [][C14_Step]_vars

\* A lock task returned from a failed attempt, still in its trylock state,
\* while another lock task that finished holds the lock.
C14_Witness ==
  \E m1, m2 \in Mutexes :
    /\ mutex[m1].lt = "finished" /\ mutex[m1].ref
    /\ task_lock[MutexRec(m1)].owner = Self(m1)
    /\ mutex[m2].lt = "trylock" /\ mutex[m2].pc = "idle"
    /\ hist.tl = [op |-> "try_lock", owner |-> Self(m2), outcome |-> "false",
                  holder |-> Self(m1)]

\* ----------------------------------------------------------------------
\* Progress of the lock tasks.
\* ----------------------------------------------------------------------
\* The AIStatefulTaskLockTask of named mutex m is in its trylock state.
InTryLock(m) == mutex[m].live /\ mutex[m].lt = "trylock"

SomeLocked ==
  \E m \in Mutexes : mutex[m].live /\ mutex[m].lt = "finished" /\ mutex[m].ref

\* C15: with a fair engine and owners that eventually unlock, whenever a
\* lock task is in its trylock state, eventually some lock task has finished
\* holding the lock (or that task is not trying any more because it was
\* aborted or destructed, or the process stopped).
C15_Progress ==
  \A m \in Mutexes :
    InTryLock(m) ~> (SomeLocked \/ ~InTryLock(m) \/ ~Alive(1))

\* C16: with a fair engine, every lock task that is in its trylock state
\* eventually finishes holding the lock (or is aborted or destructed, or the
\* process stops), when every task that finished is eventually destructed.
C16_NoStarvation ==
  \A m \in Mutexes :
    InTryLock(m) ~> (~InTryLock(m) \/ ~Alive(1))

\* ----------------------------------------------------------------------
\* What a finished lock task holds.
\* ----------------------------------------------------------------------
\* The FileLockAccess of lock task m exists, and with it the flock.
HoldsAccess(m) ==
  /\ token[mutex[m].tok].live
  /\ rec[MutexRec(m)].count > 0
  /\ HoldsOsLock(MutexRec(m))

\* The AIStatefulTaskLockTask of named mutex m finished and is the owner of
\* the task lock.
HoldsAll(m) ==
  /\ mutex[m].live /\ mutex[m].lt = "finished" /\ mutex[m].ref
  /\ task_lock[MutexRec(m)].owner = Self(m)
  /\ HoldsAccess(m)

\* The statement as it stands: the lock task has no unlock, so no step at
\* all, the destruction of the finished task included, ends what it holds.
C17_Kept ==
  \A m \in Mutexes :
    HoldsAll(m) =>
      /\ task_lock'[1].owner = Self(m)
      /\ rec'[1].count > 0
      /\ os_lock'[Inode(rec'[1].path)] = rec'[1].proc

C17_HeldUntilUnlock == [][C17_Kept]_vars

C17_WhileTaskExists ==
  \A m \in Mutexes : (mutex[m].live /\ IsLockTask(m)) => HoldsAccess(m)

C17_Step ==
  \A m \in Mutexes :
    HoldsAll(m) =>
      \/ HoldsAll(m)'
      \/ \* the finished task is destructed: the lock is released, then
         \* (in later steps) its FileLockAccess
         /\ mutex'[m] = NoMutex
         /\ task_lock'[MutexRec(m)] = Data
         /\ token' = token /\ rec' = rec /\ os_lock' = os_lock

\* C17: once an AIStatefulTaskLockTask has finished, it stays the owner of
\* the task lock, and its FileLockAccess and the flock stay held, through
\* every step of any other task or thread, until the task is destructed;
\* its destruction releases the task lock and, after it, the FileLockAccess.
\* Every lock task, of either kind, holds its FileLockAccess and the flock
\* as long as it exists.
C17_HeldUntilDestructed == [](C17_WhileTaskExists) /\ [][C17_Step]_vars

\* A finished lock task holds the lock after the try_lock of a client on
\* another named mutex returned false.
C17_Witness ==
  \E m1, m2 \in Mutexes :
    /\ HoldsAll(m1)
    /\ mutex[m2].live /\ ~IsLockTask(m2) /\ mutex[m2].pc = "idle"
    /\ hist.tl.op = "try_lock" /\ hist.tl.outcome = "false"
    /\ hist.tl.holder = Self(m1)

\* ----------------------------------------------------------------------
\* A lock task that has not finished.
\* ----------------------------------------------------------------------
\* The statement as it stands: a lock task that has not finished, running
\* or not, is not the owner of the task lock.
C18_NeverOwner ==
  \A m \in Mutexes :
    InTryLock(m) => task_lock[MutexRec(m)].owner # Self(m)

C18_NotRunning ==
  \A m \in Mutexes :
    (mutex[m].live /\ mutex[m].lt \in {"trylock", "aborted"} /\ mutex[m].pc = "idle")
      => /\ ~mutex[m].ref
         /\ task_lock[MutexRec(m)].owner # Self(m)

C18_Running ==
  \A m \in Mutexes :
    (InTryLock(m) /\ task_lock[MutexRec(m)].owner = Self(m))
      => mutex[m].pc \in {"add_ref", "reset"} /\ mutex[m].res

\* abort() or the destructor on a lock task that has not finished.
C18_AbortOrDiscard ==
  \A m \in Mutexes :
    (mutex[m].live /\ mutex[m].lt \in {"trylock", "aborted"}
       /\ (mutex'[m].lt = "aborted" \/ ~mutex'[m].live)
       /\ mutex'[m] # mutex[m])
      => /\ task_lock' = task_lock
         /\ \A m2 \in Mutexes \ {m} : mutex'[m2] = mutex[m2]

\* C18: an AIStatefulTaskLockTask that has not finished and is not inside a
\* run is not the owner of the task lock and holds no reference to it; it is
\* the owner only inside the run whose try_lock succeeds, from the first
\* critical section of try_lock until that run calls finish(). Aborting or
\* destructing a lock task that has not finished leaves the task lock and
\* every other named mutex and lock task unchanged.
C18_UnfinishedHoldsNothing ==
  [](C18_NotRunning /\ C18_Running) /\ [][C18_AbortOrDiscard]_vars

\* A lock task was aborted after its attempt failed, while a client owns the
\* lock.
C18_Witness ==
  \E m \in Mutexes :
    /\ mutex[m].live /\ mutex[m].lt = "aborted"
    /\ task_lock[MutexRec(m)].owner \in Owners
    /\ hist.tl.op = "try_lock" /\ hist.tl.outcome = "false"
    /\ hist.tl.owner = Self(m)

\* ----------------------------------------------------------------------
\* The mutexes held by an operation.
\* ----------------------------------------------------------------------
\* The mutexes that the destructor of FileLock h holds.
HeldByDtor(h) ==
  IF handle[h].state = "locked" THEN {"registry"}
  ELSE IF handle[h].state = "reading" THEN {"registry", "data"}
  ELSE {}

\* The construction of a FileLockAccess on record r is under way: it holds
\* the data mutex of r.
Constructing(r) == rec[r].alive /\ rec[r].pc # "idle"

\* The statement as it stands: no operation holds two mutexes.
C19_AtMostOneMutex ==
  \A h \in Handles : Cardinality(HeldByDtor(h)) <= 1

\* C19: an operation holds at most two of the mutexes, and then the mutex
\* of s_file_lock_map first and the data mutex of one record second: the
\* destructor of the last FileLock of a record reads the record's count
\* under both. Each mutex has one holder at a time, the construction of a
\* FileLockAccess holds the data mutex only, and a destructor that waits
\* for the data mutex waits for a construction that can go on, which does
\* not need the mutex of s_file_lock_map.
C19_RegistryThenData ==
  /\ Cardinality({h \in Handles : "registry" \in HeldByDtor(h)}) <= 1
  /\ \A h \in Handles :
       /\ "data" \in HeldByDtor(h) =>
            /\ "registry" \in HeldByDtor(h)
            /\ ~Constructing(handle[h].rec)
            /\ handle[h].rec \in map
       /\ (handle[h].state = "locked" /\ Alive(1)) =>
            \/ ENABLED FileLock_dtor_find(h)
            \/ /\ Constructing(handle[h].rec)
               /\ \E t \in Tokens :
                    \/ ENABLED add_ref_fopen(t, handle[h].rec, TRUE, TRUE)
                    \/ ENABLED add_ref_write(t, handle[h].rec, TRUE)

\* The destructor of the last FileLock of a record holds the mutex of
\* s_file_lock_map and waits for the data mutex, which the construction of
\* a FileLockAccess holds.
C19_Witness ==
  \E h \in Handles :
    /\ handle[h].state = "locked"
    /\ IsLastHandle(use_count(handle[h].rec))
    /\ Constructing(handle[h].rec)
    /\ ~ENABLED FileLock_dtor_find(h)

\* ----------------------------------------------------------------------
\* A FileLock is bound once.
\* ----------------------------------------------------------------------
\* The ASSERT of set_filename on a FileLock that has a record failed.
Rebound == fatal[1] = "set_filename: !m_file_lock_instance"

C20_Step ==
  /\ \* a binding is not replaced by another
     \A h \in Handles :
       (handle[h].state = "bound" /\ handle'[h].state = "bound")
         => handle'[h] = handle[h]
  /\ \* set_filename on a bound FileLock changes nothing
     (~Rebound /\ Rebound') =>
       /\ \E h \in Handles : handle[h].state = "bound"
       /\ handle' = handle /\ map' = map /\ rec' = rec /\ token' = token
  /\ \* the use of a FileLock that is not bound stops the process
     (hist'.last # hist.last
        /\ hist'.last.op \in {"canonical_path", "get_instance"})
       => IF hist'.last.rec = 0
          THEN fatal'[1] = hist'.last.op \o ": m_file_lock_instance"
          ELSE fatal' = fatal

C20_BoundBeforeUse ==
  \A t \in Tokens :
    token[t] # NoToken => rec[token[t].rec].alive

\* C20: set_filename on a FileLock that is bound already fails its ASSERT
\* and leaves the FileLock, its record and s_file_lock_map as they were; the
\* record of a bound FileLock is never replaced; canonical_path() on a
\* FileLock that was never bound, and the construction of a FileLockAccess
\* from it, fail their ASSERT.
C20_BindingIsOneShot == [](C20_BoundBeforeUse) /\ [][C20_Step]_vars

\* set_filename was called on a bound FileLock.
C20_Witness ==
  /\ Rebound
  /\ \E h \in Handles : handle[h].state = "bound" /\ handle[h].rec \in map

\* ----------------------------------------------------------------------
\* set_filename with an empty path.
\* ----------------------------------------------------------------------
\* ASSERT(!filename.empty()) of set_filename failed.
EmptyRefused == fatal[1] = "set_filename: !filename.empty()"

\* The registry and the FileLock objects are as they were.
RegistryKept == handle' = handle /\ rec' = rec /\ map' = map

C21_EveryEmptyPathFails ==
  \A h \in Handles, stat_ok \in BOOLEAN :
    /\ ~ENABLED (set_filename(h, <<>>, stat_ok) /\ ~(EmptyRefused' /\ RegistryKept))
    /\ \A filename \in RawPaths \ {<<>>} :
         ~ENABLED (set_filename(h, filename, stat_ok) /\ EmptyRefused')

C21_Step == (~EmptyRefused /\ EmptyRefused') => RegistryKept

\* C21: every call of set_filename with an empty path, on a FileLock that is
\* bound or not, and whatever s_file_lock_map holds, fails
\* ASSERT(!filename.empty()): the process stops, the FileLock is as it was
\* (a FileLock that was not bound has no record), no FileLockSingleton is
\* constructed and s_file_lock_map is unchanged. No call with a path that is
\* not empty fails that ASSERT.
C21_EmptyPathRefused == [](C21_EveryEmptyPathFails) /\ [][C21_Step]_vars

\* set_filename("") was called on a FileLock that is not bound, next to a
\* bound one whose record is in s_file_lock_map.
C21_Witness ==
  /\ EmptyRefused
  /\ \E h \in Handles : handle[h] = Unbound
  /\ \E h \in Handles : handle[h].state = "bound" /\ handle[h].rec \in map

\* ----------------------------------------------------------------------
\* set_filename when equivalent() fails.
\* ----------------------------------------------------------------------
\* C22: a call of set_filename with a path that is not empty, on a FileLock
\* that is not bound, during which the stat() calls of equivalent() fail,
\* treats every entry as not equivalent and ends with the FileLock bound to
\* a record of s_file_lock_map, the process running; whatever the path is,
\* the text of the path of an existing entry included.
C22_ErrorIsNotFatal ==
  \A h \in Handles, filename \in RawPaths \ {<<>>} :
    (handle[h] = Unbound /\ Cardinality(map) < MaxRecords) =>
      ~ENABLED (/\ set_filename(h, filename, FALSE)
                /\ ~(/\ fatal' = fatal
                     /\ handle'[h].state = "bound"
                     /\ handle'[h].rec \in map'))

\* ----------------------------------------------------------------------
\* The destruction of a FileLock and the entry of its record.
\* ----------------------------------------------------------------------
\* The body of the destructor of FileLock h ran in this step.
DtorBody(h) == handle[h].state = "bound" /\ handle'[h].state = "dying"

\* The body of the destructor erases the entry exactly when no other
\* FileLock points to the record, and then the count is 0; otherwise the
\* entry and the record stay.
C23_Step ==
  \A h \in Handles :
    DtorBody(h) =>
      LET r == handle[h].rec
      IN /\ (r \notin map') <=> (HandlesOf(r) = {h})
         /\ (r \notin map') => rec[r].count = 0
         /\ map' \in {map, map \ {r}}
         /\ rec' = rec

\* A record in s_file_lock_map has a FileLock left: the destruction of the
\* last one erased the entry or stopped the process.
C23_EntryHasHandle ==
  \A r \in map : Alive(1) => HandlesOf(r) # {}

\* C23: the destruction of a bound FileLock erases the entry of its record
\* from s_file_lock_map exactly when it is the last FileLock of the record
\* (the count of FileLockAccess objects being 0), so that no entry is left
\* without a FileLock; the destruction of a FileLock while another one
\* points to the record leaves the entry and the record.
C23_ErasedWithLastHandle == [](C23_EntryHasHandle) /\ [][C23_Step]_vars

\* ----------------------------------------------------------------------
\* The last release and m_lock_file.
\* ----------------------------------------------------------------------
\* The destruction of FileLockAccess t, the only one of record r, went
\* through: the flock is released, the stream is closed, m_lock_file is
\* null again, no ASSERT failed.
Released(t, r) ==
  /\ rec'[r].count = 0
  /\ os_lock'[Inode(rec[r].path)] # rec[r].proc
  /\ rec'[r].lock_file = "null"
  /\ hist'.open[r] = 0
  /\ token'[t] = NoToken
  /\ fatal' = fatal

\* C24: the destruction of the only FileLockAccess of a record (count 1 ->
\* 0) always goes through, whatever happened to the record before: it
\* unlocks the flock, closes the stream of the lock file and resets
\* m_lock_file, and no ASSERT fails; also when the process found its own pid
\* in the lock file when it obtained the lock.
C24_ReleaseCompletes ==
  \A t \in Tokens, r \in Records :
    (Idle(r) /\ rec[r].count = 1 /\ token[t] = [rec |-> r, live |-> TRUE]) =>
      \A uninit \in Uninitialized, ub \in {"crash", "survive"} :
        ~ENABLED (intrusive_ptr_release_FLS(t, r, uninit, ub) /\ ~Released(t, r))

\* m_lock_file of record r points to an open stream.
LockFileOpen(r) == rec[r].lock_file = "open"

\* C25: whenever the data mutex of a record is free, m_lock_file points to
\* an open stream if and only if the count of FileLockAccess objects is
\* positive: every construction that obtains the flock keeps the stream it
\* opened in m_lock_file, whether it wrote the pid or found its own.
C25_LockFileOpenIffCount ==
  \A r \in Records :
    Observable(r) => (LockFileOpen(r) <=> rec[r].count > 0)

\* ----------------------------------------------------------------------
\* AIStatefulTaskLockSingleton::try_lock.
\* ----------------------------------------------------------------------
\* What the first critical section of try_lock(owner) through named mutex m
\* does: it takes the task lock for owner when that has no owner, and
\* changes nothing of it otherwise; the call then goes on to return this,
\* or a null pointer.
FirstSection(m, owner) ==
  LET r == MutexRec(m)
  IN IF task_lock[r].owner = 0
     THEN /\ task_lock' = [task_lock EXCEPT ![r] = [ref_count |-> 1, owner |-> owner]]
          /\ mutex'[m].pc = "add_ref" /\ mutex'[m].res /\ mutex'[m].owner = owner
     ELSE /\ task_lock' = task_lock
          /\ mutex'[m].pc \in {"idle", "assign"} /\ ~mutex'[m].res

C26_FirstSection ==
  \A m \in Mutexes, owner \in Owners :
    Ready(m) => ~ENABLED (try_lock(m, owner) /\ ~FirstSection(m, owner))

\* The third critical section, after which the call returns this.
C26_Step ==
  \A m \in Mutexes :
    (mutex[m].live /\ mutex[m].pc = "reset" /\ mutex'[m].pc # "reset") =>
      /\ mutex[m].res
      /\ task_lock'[MutexRec(m)] = [ref_count |-> 1, owner |-> mutex[m].owner]
      /\ mutex'[m].pc = "idle" /\ mutex'[m].ref /\ mutex'[m].by = mutex[m].owner
      /\ hist'.tl.op = "try_lock" /\ hist'.tl.outcome = "true"
      /\ hist'.tl.owner = mutex[m].owner

\* Between its critical sections a call that found the task lock free is
\* the owner, whatever the calls of other threads do.
C26_InCall ==
  \A m \in Mutexes :
    (mutex[m].live /\ mutex[m].pc \in {"add_ref", "reset"}) =>
      /\ mutex[m].res
      /\ task_lock[MutexRec(m)] =
           [ref_count |-> IF mutex[m].pc = "add_ref" THEN 1 ELSE 2,
            owner |-> mutex[m].owner]

\* No critical section waits for anything but its mutex.
C26_NeverBlocks ==
  \A m \in Mutexes :
    Running(m) =>
      /\ mutex[m].pc = "idle" => \A o \in Owners : ENABLED try_lock(m, o)
      /\ mutex[m].pc = "add_ref" => ENABLED try_lock_add_ref(m)
      /\ mutex[m].pc = "reset" => ENABLED try_lock_reset(m)

\* C26: AIStatefulTaskLockSingleton::try_lock(owner) returns this exactly
\* when m_ref_count was 0 (no owner) in its first critical section, and a
\* null pointer otherwise, also when owner is the owner already; a call that
\* found the task lock free is the owner from its first critical section
\* on, and when it returns m_owner == owner and m_ref_count == 1, whatever
\* calls of other threads are interleaved with it. A call has one first
\* critical section and never waits.
C26_TryClaim ==
  [](C26_FirstSection /\ C26_InCall /\ C26_NeverBlocks) /\ [][C26_Step]_vars

\* A call that found the task lock free is between its second and its third
\* critical section (the count is 2); the call of another task, through
\* another named mutex, has returned false in the meantime.
C26_Witness ==
  \E m \in Mutexes :
    /\ mutex[m].live /\ mutex[m].pc = "reset"
    /\ task_lock[MutexRec(m)] = [ref_count |-> 2, owner |-> mutex[m].owner]
    /\ hist.tl.op = "try_lock" /\ hist.tl.outcome = "false"
    /\ hist.tl.owner # mutex[m].owner /\ hist.tl.holder = 0
    /\ \A m2 \in Mutexes : mutex[m2].live => ~mutex[m2].ref

\* ----------------------------------------------------------------------
\* AIStatefulTaskNamedMutex::try_lock that returns false.
\* ----------------------------------------------------------------------
\* The task lock, the count of FileLockAccess objects and is_locked() of
\* named mutex m are as they were.
ClaimKept(m) ==
  /\ task_lock' = task_lock
  /\ rec' = rec
  /\ mutex'[m].ref = mutex[m].ref

\* A call on a named mutex that does not hold the lock returns false from
\* the first critical section.
C27_NotHolding ==
  \A m \in Mutexes, owner \in Owners :
    (Ready(m) /\ ~mutex[m].ref /\ AlreadyOwned(task_lock[MutexRec(m)])) =>
      ~ENABLED (try_lock(m, owner) /\ ~ClaimKept(m))

\* A call on a named mutex that holds the lock returns false when it has
\* assigned the null pointer to m_stateful_task_lock_ref.
C27_Holding ==
  \A m \in Mutexes :
    (mutex[m].live /\ mutex[m].pc = "assign" /\ ~mutex[m].res
       /\ mutex'[m].pc = "idle") => ClaimKept(m)

\* C27: a call of AIStatefulTaskNamedMutex::try_lock that returns false
\* leaves m_owner and m_ref_count of the task lock, the count of
\* FileLockAccess objects and is_locked() of the named mutex as they were
\* before the call; so does any number of such calls in a row.
C27_FailingTryLockIdempotent == [](C27_NotHolding) /\ [][C27_Holding]_vars

\* ----------------------------------------------------------------------
\* AIStatefulTaskNamedMutex::is_locked.
\* ----------------------------------------------------------------------
\* is_locked(): static_cast<bool>(m_stateful_task_lock_ref)
is_locked(m) == mutex[m].live /\ mutex[m].ref

\* The named mutex that is locked holds the task lock for the task whose
\* try_lock succeeded through it, and no other named mutex of the record is
\* locked.
C28_HeldThrough ==
  \A m \in Mutexes :
    is_locked(m) =>
      /\ task_lock[MutexRec(m)].owner = mutex[m].by
      /\ task_lock[MutexRec(m)].ref_count >= 1
      /\ \A m2 \in Mutexes \ {m} :
           (mutex[m2].live /\ MutexRec(m2) = MutexRec(m)) => ~is_locked(m2)

\* is_locked() of an existing named mutex becomes true when a try_lock on
\* it returns true, and false when an unlock on it returns.
C28_Changes ==
  \A m \in Mutexes :
    (mutex[m].live /\ mutex'[m].live) =>
      /\ (~is_locked(m) /\ is_locked(m)') =>
            /\ hist'.tl.op = "try_lock" /\ hist'.tl.outcome = "true"
            /\ hist'.tl.owner = mutex'[m].by
      /\ (is_locked(m) /\ ~is_locked(m)') =>
            hist'.tl.op = "unlock" /\ hist'.tl.outcome = "ok"

\* C28: is_locked() of a named mutex M is true exactly while the task lock
\* of its record is held through M: it becomes true when try_lock on M
\* returns true and stays true until unlock on M, and in that time it is
\* false for every other named mutex of the record.
C28_IsLockedIffHeld == [](C28_HeldThrough) /\ [][C28_Changes]_vars

\* ----------------------------------------------------------------------
\* The pid carried by 'Failed to obtain file lock'.
\* ----------------------------------------------------------------------
\* The construction on record r that try_lock refused ends in this step.
Refusal(r) ==
  /\ rec[r].alive /\ rec[r].pc = "fopen" /\ ~rec[r].obtained_lock
  /\ rec'[r].pc = "idle"

\* The statement as it stands: the pid that a refusal carries is the pid of
\* the process that holds the flock, never that of the refused process or
\* of a process that does not hold the flock.
C29_Holder ==
  \A r \in Records :
    Refusal(r) =>
      \/ hist'.last.pid = 0
      \/ /\ hist'.last.pid = os_lock[Inode(rec[r].path)]
         /\ hist'.last.pid # rec[r].proc

C29_ReportsCurrentHolder == [][C29_Holder]_vars

\* The refusal carries the record (its path) and the pid that the lock file
\* holds when it is read, 0 (no pid) when the file cannot be opened or read.
C29_Stored ==
  \A t \in Tokens, r \in Records, stream \in BOOLEAN, fread_ok \in BOOLEAN :
    (/\ rec[r].alive /\ rec[r].pc = "fopen" /\ ~rec[r].obtained_lock
     /\ token[t] = [rec |-> r, live |-> FALSE]) =>
      ~ENABLED (/\ add_ref_fopen(t, r, stream, fread_ok)
                /\ hist'.last #
                     [op |-> "add_ref", rec |-> r, outcome |-> "LockUnavailable",
                      pid |-> IF stream /\ fread_ok
                              THEN file_pid[Inode(rec[r].path)] ELSE 0])

\* The pid in the lock file is the pid the file held at the start or the
\* pid of a process that obtained the flock and wrote it while it held it.
C29_Writer ==
  file_pid' # file_pid =>
    \E r \in Records :
      /\ os_lock[Inode(rec[r].path)] = rec[r].proc
      /\ file_pid' = [file_pid EXCEPT ![Inode(rec[r].path)] = rec[r].proc]

\* C29: the exception of a construction that try_lock refused carries the
\* path and the pid read from the lock file at that moment: the pid of the
\* process that last obtained the flock and wrote its pid, or no pid when
\* the file cannot be opened or read or holds 0. That is the process that
\* holds the flock once that process has written its pid; before that, or
\* when its write failed, or when it has released since, it is an earlier
\* holder, which can be the refused process itself.
C29_ReportsStoredPid == [](C29_Stored) /\ [][C29_Writer]_vars

\* Process B was refused while process A holds the flock, and the exception
\* carries the pid of B itself, which the lock file holds from an earlier
\* acquisition.
C29_Witness ==
  \E rA, rB \in Records :
    /\ OtherProcess(rA, rB)
    /\ os_lock[Inode(rec[rA].path)] = rec[rA].proc
    /\ hist.last = [op |-> "add_ref", rec |-> rB, outcome |-> "LockUnavailable",
                    pid |-> rec[rB].proc]

\* ----------------------------------------------------------------------
\* The canonical path of a record.
\* ----------------------------------------------------------------------
\* The entries of s_file_lock_map whose canonical path is the same file as
\* path.
SameInode(path) == {r \in Registry(1) : Inode(rec[r].path) = Inode(path)}

\* What set_filename(filename) on FileLock h has to do: bind h to the entry
\* that is the same file, without a new record, when there is one; otherwise
\* bind it to a new record whose canonical path is the normalized filename.
Binds(h, filename) ==
  LET normal_path == LexicallyNormal(Absolute(filename))
  IN IF SameInode(normal_path) # {}
     THEN /\ handle'[h].state = "bound"
          /\ handle'[h].rec \in SameInode(normal_path)
          /\ rec' = rec /\ map' = map
     ELSE /\ handle'[h].state = "bound"
          /\ handle'[h].rec \notin map
          /\ map' = map \cup {handle'[h].rec}
          /\ rec'[handle'[h].rec].path = normal_path

C30_Bind ==
  \A h \in Handles, filename \in RawPaths \ {<<>>}, stat_ok \in BOOLEAN :
    (handle[h] = Unbound /\ Cardinality(map) < MaxRecords) =>
      ~ENABLED (set_filename(h, filename, stat_ok) /\ ~Binds(h, filename))

\* The canonical path of a record does not change.
C30_PathKept ==
  \A r \in Records :
    (rec[r].alive /\ rec'[r].alive) => rec'[r].path = rec[r].path

\* C30: the canonical path of a FileLockSingleton is the normalized form of
\* the path of the set_filename call that constructed it and never changes;
\* a later set_filename with a path that is the same file, however it is
\* spelled, binds the FileLock to that record, whose canonical path it then
\* reports, and constructs no new record.
C30_FirstMatchWins == [](C30_Bind) /\ [][C30_PathKept]_vars

\* ----------------------------------------------------------------------
\* The destructors of all FileLock objects of a record, on several threads.
\* ----------------------------------------------------------------------
\* The destructor of the last FileLock that pointed to record r, body and
\* member, was completed in this step.
LastDtorCompleted(r) == HandlesOf(r) # {} /\ HandlesOf(r)' = {}

\* C31: when the destructors of all FileLock objects of a record have been
\* completed, in whatever order the threads ran their bodies and the
\* destruction of their members, no FileLockAccess of the record existing,
\* s_file_lock_map holds no entry for the record.
C31_Step ==
  \A r \in Records :
    (LastDtorCompleted(r) /\ ~Outstanding(r) /\ rec[r].count = 0)
      => r \notin map'

C31_NoEntryLeft == [][C31_Step]_vars

\* ----------------------------------------------------------------------
\* try_lock on a named mutex that holds the task lock.
\* ----------------------------------------------------------------------
\* try_lock on named mutex m, which holds the task lock, returns false in
\* this step.
ReturnsFalse(m) ==
  /\ is_locked(m)
  /\ mutex[m].pc = "assign" /\ ~mutex[m].res
  /\ mutex'[m].pc = "idle"
  /\ hist'.tl.op = "try_lock" /\ hist'.tl.outcome = "false"

\* Named mutex m still holds the task lock for the task that locked
\* through it.
StillHeld(m) ==
  /\ is_locked(m)'
  /\ task_lock'[MutexRec(m)] = [ref_count |-> 1, owner |-> mutex[m].by]
  /\ task_lock'[MutexRec(m)] = task_lock[MutexRec(m)]

\* C32: when try_lock is called on a named mutex that holds the task lock
\* and returns false, the task lock is still held through that named mutex
\* by the same owner: m_owner and m_ref_count are as they were and
\* is_locked() is still true.
C32_Step == \A m \in Mutexes : ReturnsFalse(m) => StillHeld(m)

C32_FalseReleasesNothing == [][C32_Step]_vars

\* ----------------------------------------------------------------------
\* The threads and the three mutexes (SpecThreadsFair).
\* ----------------------------------------------------------------------
\* The destructor of FileLock h is under way.
Destructing(h) == handle[h].state \in {"locked", "reading", "dying"}

\* A call of try_lock or unlock on named mutex m is under way.
Calling(m) == mutex[m].live /\ mutex[m].pc # "idle"

\* The thread that constructs a FileLockAccess of record r, and holds the
\* data mutex of r, can go on: to fopen, whatever it returns, or to the
\* write of the pid.
HolderGoesOn(r) ==
  \E t \in Tokens :
    \/ \A stream \in BOOLEAN : ENABLED add_ref_fopen(t, r, stream, TRUE)
    \/ ENABLED add_ref_write(t, r, TRUE)

\* A thread inside an operation can take its next step, or it waits for a
\* data mutex whose holder can take its next step and waits for nothing.
C33_NoThreadStuck ==
  Alive(1) =>
    /\ \A h \in Handles :
         /\ handle[h].state = "locked" =>
              \/ ENABLED FileLock_dtor_find(h)
              \/ Constructing(handle[h].rec) /\ HolderGoesOn(handle[h].rec)
         /\ handle[h].state = "reading" => ENABLED FileLock_dtor_rat(h)
         /\ handle[h].state = "dying" => ENABLED FileLock_dtor_member(h)
    /\ \A r \in Records : Constructing(r) => HolderGoesOn(r)
    /\ \A m \in Mutexes :
         /\ (mutex[m].live /\ mutex[m].pc = "add_ref") => ENABLED try_lock_add_ref(m)
         /\ (mutex[m].live /\ mutex[m].pc = "reset") => ENABLED try_lock_reset(m)
         /\ (mutex[m].live /\ mutex[m].pc = "assign") => ENABLED try_lock_assign(m)
         /\ (mutex[m].live /\ mutex[m].pc = "unlock") => ENABLED unlock_reset(m)

\* An operation begins as soon as the mutex it needs first is free: a thread
\* waits for nothing but a mutex that another thread holds.
C33_WaitsOnlyForHeld ==
  Alive(1) =>
    /\ RegistryFree =>
         \A h \in Handles :
           /\ handle[h].state = "bound" => ENABLED FileLock_dtor_wat(h)
           /\ handle[h].state = "unbound" =>
                \A filename \in LockPaths : ENABLED set_filename(h, filename, TRUE)
    /\ \A r \in Records, t \in Tokens :
         (Idle(r) /\ DataFree(r)) =>
           /\ (token[t] = NoToken /\ CanConstruct(t, r)) =>
                \/ ENABLED add_ref_increment(t, r)
                \/ ENABLED add_ref_try_lock(t, r)
           /\ (token[t] = [rec |-> r, live |-> TRUE] /\ ~Embedded(t)) =>
                ENABLED intrusive_ptr_release_FLS(t, r, "null", "survive")
    /\ \A m \in Mutexes :
         (mutex[m].live /\ mutex[m].pc = "idle") =>
           /\ ENABLED try_lock(m, ClientTask)
           /\ mutex[m].ref => ENABLED OwnerUnlocks(m)

\* Every operation that has begun comes to its end, or the process is
\* stopped by a failed ASSERT: no thread stays inside an operation for ever.
C33_Terminates ==
  /\ \A h \in Handles : []<>(~Destructing(h) \/ ~Alive(1))
  /\ \A r \in Records : []<>(~Constructing(r) \/ ~Alive(1))
  /\ \A m \in Mutexes : []<>(~Calling(m) \/ ~Alive(1))

\* C33: whatever the interleaving of set_filename, the destructor of
\* FileLock, the construction and destruction of FileLockAccess objects,
\* try_lock and unlock, no thread is stuck: a thread inside an operation can
\* go on or waits for a mutex whose holder can go on, a thread that wants
\* to begin an operation waits only while another thread holds the mutex,
\* and with threads that are scheduled every operation that has begun ends.
C33_DeadlockFree ==
  [](C33_NoThreadStuck /\ C33_WaitsOnlyForHeld) /\ C33_Terminates

\* A destructor of a FileLock holds the mutex of s_file_lock_map and the
\* data mutex of its record while a try_lock call on a named mutex of that
\* record is between its critical sections.
C33_Witness ==
  /\ Alive(1)
  /\ \E h \in Handles, m \in Mutexes :
       /\ handle[h].state = "reading"
       /\ mutex[m].live /\ mutex[m].pc = "add_ref"
       /\ MutexRec(m) = handle[h].rec

\* ----------------------------------------------------------------------
\* fopen fails after file_lock::try_lock succeeded.
\* ----------------------------------------------------------------------
\* The construction of the first FileLockAccess of record r, which obtained
\* the flock, throws 'Failed to open lock file' in this step.
IOErrorThrown(r) ==
  /\ rec[r].alive /\ rec[r].pc = "fopen" /\ rec[r].obtained_lock
  /\ rec'[r].pc = "idle"
  /\ hist'.last = [op |-> "add_ref", rec |-> r, outcome |-> "IOError", pid |-> 0]

\* Nothing of the attempt is left: the count is 0, there is no
\* FileLockAccess of the record, and the process does not hold the flock,
\* which file_lock::try_lock of any other process would obtain.
NoPartialState(r) ==
  LET i == Inode(rec[r].path)
  IN /\ rec'[r].count = 0
     /\ \A t \in Tokens : token'[t].rec # r
     /\ os_lock'[i] # rec[r].proc
     /\ \A p \in Procs \ {rec[r].proc} : OsTryLock(os_lock'[i], p)

\* C34: when the construction of the first FileLockAccess obtains the flock
\* and fopen of the lock file then fails, the construction throws the I/O
\* error and leaves the count 0, no FileLockAccess, and the flock released,
\* so that another process can obtain it.
C34_Step == \A r \in Records : IOErrorThrown(r) => NoPartialState(r)

C34_IOErrorLeavesNothing == [][C34_Step]_vars

\* ----------------------------------------------------------------------
\* The count and the FileLockAccess objects.
\* ----------------------------------------------------------------------
\* The FileLockAccess objects of record r that exist: those constructed by
\* the user, their copies, and the members of named mutexes and lock tasks.
LiveTokens(r) == {t \in Tokens : token[t] = [rec |-> r, live |-> TRUE]}

\* The FileLockAccess objects of record r whose construction is under way.
BeingConstructed(r) == {t \in Tokens : token[t] = [rec |-> r, live |-> FALSE]}

\* ASSERT(data_w->m_number_of_FileLockAccess_objects > 0) failed.
CountAssertFailed(p) == fatal[p] = "release: count > 0"

C35_CountIsTokens ==
  \A r \in Records :
    /\ rec[r].count >= 0
    /\ rec[r].alive => ~CountAssertFailed(rec[r].proc)
    /\ (Observable(r) /\ Alive(rec[r].proc)) =>
         /\ rec[r].count = Cardinality(LiveTokens(r))
         /\ BeingConstructed(r) = {}
         /\ \A t \in LiveTokens(r), uninit \in Uninitialized :
              ~ENABLED (/\ intrusive_ptr_release_FLS(t, r, uninit, "survive")
                        /\ CountAssertFailed(rec[r].proc)')
    /\ (Constructing(r) /\ Alive(rec[r].proc)) =>
         /\ LiveTokens(r) = {}
         /\ Cardinality(BeingConstructed(r)) = 1

\* A construction that throws leaves the count as it was when the
\* construction began, 0, and no FileLockAccess.
C35_Failed ==
  \A r \in Records :
    (rec[r].alive /\ rec[r].pc = "fopen" /\ rec'[r].pc = "idle") =>
      /\ rec'[r].count = hist.before[r].rec.count
      /\ rec'[r].count = 0
      /\ \A t \in Tokens : token'[t].rec # r

\* C35: whenever the data mutex of a record is free, the count of the
\* record is the number of its FileLockAccess objects that exist in the
\* process, copies and the members of named mutexes and lock tasks
\* included; a construction that throws makes no FileLockAccess and leaves
\* the count as it was; so the ASSERT of the count at the start of a
\* destruction never fails and the count is never negative. While a first
\* construction is under way the count is the provisional 1 of that
\* construction.
C35_CountEqualsTokens == [](C35_CountIsTokens) /\ [][C35_Failed]_vars

\* Two FileLockAccess objects exist, one the member of a lock task and one
\* the member of a named mutex of the client; the file is locked and open.
C35_Witness ==
  /\ Observable(1) /\ Alive(1) /\ rec[1].count = 2
  /\ \E m1, m2 \in Mutexes :
       /\ mutex[m1].live /\ IsLockTask(m1)
       /\ mutex[m2].live /\ ~IsLockTask(m2)
  /\ os_lock[1] = 1 /\ rec[1].lock_file = "open"

\* ----------------------------------------------------------------------
\* finish() and the owner of the task lock.
\* ----------------------------------------------------------------------
\* Lock task m calls finish() in this step.
FinishCalled(m) == mutex[m].lt # "finished" /\ mutex'[m].lt = "finished"

\* m_owner of the task lock of the record of m is the task m itself.
OwnsTaskLock(m) ==
  task_lock[MutexRec(m)] = [ref_count |-> 1, owner |-> Self(m)]

\* An AIStatefulTaskLockTask calls finish() when its try_lock(this) returns
\* true: it became the owner in the first critical section of that call and
\* is the owner when the call returns. A task::TaskLock calls finish() in
\* the run in which lock(1) returned true, or in the run after wait(1).
C36_Step ==
  \A m \in Mutexes :
    FinishCalled(m) =>
      \/ /\ mutex[m].lt = "trylock"
         /\ TryLockReturns(m) /\ mutex[m].res
         /\ task_lock[MutexRec(m)].owner = Self(m)
         /\ OwnsTaskLock(m)' /\ mutex'[m].ref /\ mutex'[m].by = Self(m)
      \/ mutex[m].lt \in {"TaskLock_lock", "TaskLock_locked"}

\* A finished AIStatefulTaskLockTask is the owner for as long as it exists,
\* whatever the other lock tasks and the client do.
C36_FinishedOwns ==
  \A m \in Mutexes :
    (mutex[m].live /\ Locked(m) /\ mutex[m].ref) => OwnsTaskLock(m)

OtherHandles(h) ==
  {h2 \in Handles \ {h} : /\ handle[h2].state \in {"bound", "passed", "dying"}
                          /\ handle[h2].rec = handle[h].rec}

\* The construction from FileLock h ends in this step: by an exception or
\* with the object constructed (ConstructionReturns), or in the failed
\* ASSERT of the body.
ConstructionReturns(h) == handle[h].state = "passed" /\ handle'[h].state = "bound"

ConstructionAborts(h) ==
  handle[h].state = "passed" /\ Alive(1) /\ fatal'[1] = RvalueAssert

\* The statement as it stands: a construction from the only FileLock of
\* the record never returns, it ends in the failed ASSERT.
C37_OnlyHandleStep ==
  \A h \in Handles :
    /\ ConstructionReturns(h) => OtherHandles(h) # {}
    /\ ConstructionAborts(h) => OtherHandles(h) = {}

C37_OnlyHandleAlwaysFatal == [][C37_OnlyHandleStep]_vars

\* The ASSERT is in the body, which runs when intrusive_ptr_add_ref has
\* returned. A construction that threw did not evaluate it.
C37_Step ==
  \A h \in Handles :
    LET r == handle[h].rec
        obtained == h \in Tokens /\ token[h] = [rec |-> r, live |-> TRUE]
    IN /\ (ConstructionReturns(h) /\ obtained) =>
            /\ OtherHandles(h) # {}
            /\ r \in map /\ UNCHANGED <<token, rec, os_lock>>
       /\ (ConstructionReturns(h) /\ ~obtained) =>
            /\ token[h] = NoToken /\ token' = token /\ fatal' = fatal
            /\ hist.before[r].rec.count = 0
       /\ ConstructionAborts(h) =>
            /\ obtained /\ OtherHandles(h) = {}
            /\ rec'[r].count = rec[r].count /\ rec[r].count > 0

\* When the FileLockAccess has been obtained, the body can be run, and it
\* accepts exactly when another FileLock of the record exists.
C37_BodyDecides ==
  \A h \in Handles \cap Tokens :
    (Passed(h) /\ Alive(1) /\ token[h] = [rec |-> handle[h].rec, live |-> TRUE]) =>
      /\ ENABLED FileLockAccess_rvalue_body(h, h)
      /\ ~ENABLED (/\ FileLockAccess_rvalue_body(h, h)
                   /\ (fatal'[1] = RvalueAssert) # (OtherHandles(h) = {}))

\* C37: a FileLockAccess (or a named mutex) is constructed from a FileLock
\* passed as an rvalue. When intrusive_ptr_add_ref throws, the construction
\* ends with that exception and the ASSERT is not evaluated, also when the
\* FileLock is the only one of its record. When intrusive_ptr_add_ref
\* returns, the body accepts if and only if another FileLock of the same
\* record exists at that moment (one whose destructor has not yet
\* destructed its member counts); otherwise the construction ends in the
\* failed ASSERT, with the count already incremented.
C37_AcceptedOnlyWithOther == [](C37_BodyDecides) /\ [][C37_Step]_vars

\* The body has accepted a construction from FileLock 1 while FileLock 2 is
\* bound to the same record, and a named mutex holds the FileLockAccess.
C37_Witness ==
  /\ Alive(1)
  /\ handle[1].state = "bound" /\ handle[2].state = "bound"
  /\ handle[1].rec = handle[2].rec
  /\ token[1] = [rec |-> handle[1].rec, live |-> TRUE]
  /\ mutex[1].live /\ mutex[1].tok = 1
  /\ hist.last = [op |-> "FileLockAccess(FileLock&&)", rec |-> handle[1].rec,
                  outcome |-> "ok", pid |-> 0]
====
